---------------------------- MODULE Spec2Model ----------------------------
(***************************************************************************)
(* The client request pipeline of beeper-go-sdk: RetryLogic.Do and its     *)
(* backoff (internal/retry), BeeperDesktop.DoRequest / doRequestOnce /     *)
(* handleErrorResponse (client), and the public IsRetryableError policy    *)
(* (errors.go).                                                            *)
(*                                                                         *)
(* Durations are in milliseconds.  Error values are records with the       *)
(* fields of APIError plus the Go dynamic type of the value.               *)
(***************************************************************************)
EXTENDS Integers, Sequences, FiniteSets, TLC

VARIABLES
    maxRetries,   \* RetryLogic.maxRetries, as given to New / NewRetryLogic
    ctx,          \* the caller's context: "active", "canceled", "deadline"
    pc,           \* "idle" (client built), "loop" (inside Do), "returned"
    hasResult,    \* DoRequest: result != nil
    reqKind,      \* DoRequest: what the caller passed (see RequestKinds)
    attempt,      \* Do's loop variable
    calls,        \* number of times fn was invoked by this Do
    delays,       \* the backoff waits that ran to completion, in order
    lastErr,      \* Do's lastErr
    outcomes,     \* what each HTTP attempt met (the transport's answers), in order
    result,       \* what *result holds (DoRequest)
    retTag,       \* how Do returned: "pending","nil","ctx","err","exhausted"
    retErr,       \* the error returned ("err") or wrapped ("exhausted")
    retCount,     \* the N of "request failed after N attempts"
    ctxDoneAtEntry, \* the context was already done when Do was entered
    delayArg,     \* calculateDelay: the attempt index it is applied to
    delayOut,     \* calculateDelay: its result, NoDelay before the call
    errIn,        \* IsRetryableError / handleErrorResponse: the input drawn
    errOut,       \* handleErrorResponse: the error produced
    retryableOut, \* IsRetryableError: its answer, "none" before the call
    envToken,     \* New: os.Getenv("BEEPER_ACCESS_TOKEN")
    envBaseURL,   \* New: os.Getenv("BEEPER_DESKTOP_BASE_URL"), a sequence of characters
    optsGiven,    \* New: the options passed, in call order
    optIdx,       \* New: how many options have been applied
    config,       \* New: the ClientConfig being resolved
    newPc,        \* New: "idle", "options", "construct", "returned"
    client,       \* New: <<>> for a nil *BeeperDesktop, else <<the client>>
    built,        \* New: what has been constructed so far
    newErr,       \* New: the error returned
    inflight,     \* the DoRequest / DoRequestWithQuery calls on the client, by caller
    it,           \* the Iterator, <<>> while there is none
    itPc,         \* "idle", "ready" between calls, "toSlice" inside ToSlice's loop
    fetches,      \* calls of DoRequestWithQuery the iterator has made
    requests,     \* the query maps of those calls, in order
    pages,        \* what those calls answered, in order
    yielded,      \* the items it.Next has returned, to the caller or to ToSlice
    sliceItems,   \* ToSlice: its local items
    sliceStart,   \* fetches when the last ToSlice was entered, -1 before any
    sliceFrom,    \* Len(yielded) when the last ToSlice was entered
    lastCall,     \* what the last iterator call returned
    qIn,          \* query encoder: <<the value to encode>>
    qOp,          \* query encoder: the operation applied
    qOut,         \* query encoder: <<the request or url.Values produced>>
    web           \* the web front end: its session store, lock and request handlers

vars == <<maxRetries, ctx, pc, hasResult, reqKind, attempt, calls, delays,
          lastErr, outcomes, result, retTag, retErr, retCount, ctxDoneAtEntry,
          delayArg, delayOut, errIn, errOut, retryableOut,
          envToken, envBaseURL, optsGiven, optIdx, config, newPc, client, built,
          newErr, inflight, it, itPc, fetches, requests, pages, yielded, sliceItems,
          sliceStart, sliceFrom, lastCall, qIn, qOp, qOut, web>>

pipelineVars == <<maxRetries, ctx, pc, hasResult, reqKind, attempt, calls,
                  delays, lastErr, outcomes, result, retTag, retErr, retCount,
                  ctxDoneAtEntry>>
delayVars == <<delayArg, delayOut>>
errorVars == <<errIn, errOut, retryableOut>>
newVars == <<envToken, envBaseURL, optsGiven, optIdx, config, newPc, client, built,
             newErr, inflight>>
iterVars == <<it, itPc, fetches, requests, pages, yielded, sliceItems, sliceStart,
              sliceFrom, lastCall>>
queryVars == <<qIn, qOp, qOut>>
webVars == <<web>>
\* the components a pipeline, delay or error step leaves alone
restVars == <<newVars, iterVars, queryVars, webVars>>
\* the components New, an iterator call and the query encoder leave alone
notNewVars == <<pipelineVars, delayVars, errorVars, iterVars, queryVars, webVars>>
notIterVars == <<pipelineVars, delayVars, errorVars, newVars, queryVars, webVars>>
notQueryVars == <<pipelineVars, delayVars, errorVars, newVars, iterVars, webVars>>
notWebVars == <<pipelineVars, delayVars, errorVars, newVars, iterVars, queryVars>>

-----------------------------------------------------------------------------
(* Bounds of the model *)

\* largest maxRetries a client is built with
MaxRetriesBound == 2
\* how far below zero maxRetries is drawn (WithMaxRetries validates nothing)
NegRetriesBound == 1
\* largest attempt index calculateDelay is applied to
MaxAttemptIndex == 66

Min(a, b) == IF a < b THEN a ELSE b

-----------------------------------------------------------------------------
(* Error values: errors.go *)

\* The Go types an error value of the pipeline can have.
APIErrorTypes ==
    {"APIError", "BadRequestError", "AuthenticationError",
     "PermissionDeniedError", "NotFoundError", "ConflictError",
     "UnprocessableEntityError", "RateLimitError", "InternalServerError"}
ConnectionErrorTypes == {"APIConnectionError", "APIConnectionTimeoutError"}
\* "wrapError" is what fmt.Errorf("...: %w", err) returns
ErrorTypes == APIErrorTypes \cup ConnectionErrorTypes \cup {"wrapError"}

NoDetails == {}

MkError(t, status, message, code, details, cause) ==
    [type |-> t, Status |-> status, Message |-> message, Code |-> code,
     Details |-> details, Cause |-> cause]

\* the nil error
NoError == MkError("nil", 0, "", "", NoDetails, "")

\* an error of one of the types embedding APIError (or APIError itself)
MkAPIError(t, status, message, code, details) ==
    MkError(t, status, message, code, details, "")

\* &APIConnectionError{BeeperDesktopError{Message: "request failed: <cause>"}, Cause}
MkConnectionError(cause) ==
    MkError("APIConnectionError", 0, "request failed: " \o cause, "", NoDetails, cause)

\* fmt.Errorf(prefix + ": %w", cause)
MkWrapError(prefix, cause) ==
    MkError("wrapError", 0, prefix, "", NoDetails, cause)

\* IsRetryableError without the 408 case of the generic APIError
IsRetryableErrorNo408(err) ==
    CASE err.type \in {"APIConnectionError", "APIConnectionTimeoutError"} -> TRUE
      [] err.type \in {"ConflictError", "RateLimitError", "InternalServerError"} -> TRUE
      [] err.type = "APIError" -> err.Status >= 500
      [] OTHER -> FALSE

\* errors.go IsRetryableError: a type switch on the dynamic type of err
IsRetryableError(err) ==
    CASE err.type \in {"APIConnectionError", "APIConnectionTimeoutError"} -> TRUE
      [] err.type \in {"ConflictError", "RateLimitError", "InternalServerError"} -> TRUE
      [] err.type = "APIError" -> (err.Status = 408 \/ err.Status >= 500)
      [] OTHER -> FALSE

\* isRetryableError retrying every error
isRetryableErrorAlways(err) == TRUE

\* internal isRetryableError: the body is a bare "return false"
isRetryableError(err) == FALSE

-----------------------------------------------------------------------------
(* Response bodies and encoding/json on them *)

BodyNotFound == "{\"error\":\"not found\",\"code\":\"NOT_FOUND\"}"
BodyTestError == "{\"error\":\"test error\"}"
BodyDetails == "{\"error\":\"invalid\",\"code\":\"E_FIELD\",\"details\":{\"field\":\"limit\"}}"
BodyTypeMismatch == "{\"error\":5,\"code\":\"X\"}"
BodySuccess == "{\"success\":true}"
BodyText == "Service Unavailable"
BodyEmpty == ""

Bodies == {BodyNotFound, BodyTestError, BodyDetails, BodyTypeMismatch,
           BodySuccess, BodyText, BodyEmpty}

\* json.Unmarshal(body, &errorResp) for the struct {Error, Code, Details} of
\* handleErrorResponse: ok is err == nil, the rest is what errorResp holds
\* afterwards.  A syntax error leaves the struct zero; a field of the wrong JSON
\* type is skipped, the other fields are still filled and an error is returned.
UnmarshalErrorResp(body) ==
    CASE body = BodyNotFound ->
            [ok |-> TRUE, Error |-> "not found", Code |-> "NOT_FOUND", Details |-> NoDetails]
      [] body = BodyTestError ->
            [ok |-> TRUE, Error |-> "test error", Code |-> "", Details |-> NoDetails]
      [] body = BodyDetails ->
            [ok |-> TRUE, Error |-> "invalid", Code |-> "E_FIELD",
             Details |-> {<<"field", "limit">>}]
      [] body = BodyTypeMismatch ->
            [ok |-> FALSE, Error |-> "", Code |-> "X", Details |-> NoDetails]
      [] body = BodySuccess ->
            [ok |-> TRUE, Error |-> "", Code |-> "", Details |-> NoDetails]
      [] OTHER ->
            [ok |-> FALSE, Error |-> "", Code |-> "", Details |-> NoDetails]

\* json.Unmarshal(respBody, result) for a map[string]interface{} target: ok is
\* err == nil, value the decoded object as a set of <<key, value>> pairs.
NoResult == {}
UnmarshalResult(body) ==
    CASE body = BodyNotFound ->
            [ok |-> TRUE, value |-> {<<"error", "not found">>, <<"code", "NOT_FOUND">>}]
      [] body = BodyTestError ->
            [ok |-> TRUE, value |-> {<<"error", "test error">>}]
      [] body = BodyDetails ->
            [ok |-> TRUE, value |-> {<<"error", "invalid">>, <<"code", "E_FIELD">>,
                                     <<"details", "field=limit">>}]
      [] body = BodyTypeMismatch ->
            [ok |-> TRUE, value |-> {<<"error", "5">>, <<"code", "X">>}]
      [] body = BodySuccess ->
            [ok |-> TRUE, value |-> {<<"success", "true">>}]
      [] OTHER ->
            [ok |-> FALSE, value |-> NoResult]

-----------------------------------------------------------------------------
(* handleErrorResponse: client, status >= 400 *)

\* the switch on statusCode with the 422 case missing
ErrorTypeOfStatusNo422(statusCode) ==
    CASE statusCode = 400 -> "BadRequestError"
      [] statusCode = 401 -> "AuthenticationError"
      [] statusCode = 403 -> "PermissionDeniedError"
      [] statusCode = 404 -> "NotFoundError"
      [] statusCode = 409 -> "ConflictError"
      [] statusCode = 429 -> "RateLimitError"
      [] OTHER -> IF statusCode >= 500 THEN "InternalServerError" ELSE "APIError"

\* the Go type the switch on statusCode picks
ErrorTypeOfStatus(statusCode) ==
    CASE statusCode = 400 -> "BadRequestError"
      [] statusCode = 401 -> "AuthenticationError"
      [] statusCode = 403 -> "PermissionDeniedError"
      [] statusCode = 404 -> "NotFoundError"
      [] statusCode = 409 -> "ConflictError"
      [] statusCode = 422 -> "UnprocessableEntityError"
      [] statusCode = 429 -> "RateLimitError"
      [] OTHER -> IF statusCode >= 500 THEN "InternalServerError" ELSE "APIError"

handleErrorResponse(statusCode, body) ==
    LET errorResp == UnmarshalErrorResp(body)
        message == IF errorResp.Error = "" THEN body ELSE errorResp.Error
    IN  MkAPIError(ErrorTypeOfStatus(statusCode), statusCode, message,
                   errorResp.Code, errorResp.Details)


-----------------------------------------------------------------------------
(* doRequestOnce: one attempt *)

\* What the caller hands to DoRequest: a request with no body, one with a body
\* json.Marshal accepts, one whose body json.Marshal rejects, and one
\* http.NewRequestWithContext rejects (an invalid method).
RequestKinds == {"noBody", "body", "unmarshalableBody", "invalidMethod"}

Statuses == {200, 204, 400, 401, 403, 404, 408, 409, 418, 422, 429, 500, 502, 503}

TransportCauses == {"connection refused", "context deadline exceeded", "context canceled"}

MkOutcome(kind, status, body, cause) ==
    [kind |-> kind, status |-> status, body |-> body, cause |-> cause]

\* What c.httpClient.Do and io.ReadAll can give one attempt.
Outcomes ==
    {MkOutcome("transportError", 0, "", c) : c \in TransportCauses}
    \cup {MkOutcome("readError", 0, "", "unexpected EOF")}
    \cup {MkOutcome("response", st, b, "") : st \in Statuses, b \in Bodies}

\* TRUE iff the attempt gets as far as c.httpClient.Do
SendsRequest(kind) == kind \in {"noBody", "body"}

\* doRequestOnce: the error it returns and what *result holds afterwards
doRequestOnce(kind, outcome, withResult, oldResult) ==
    IF kind = "unmarshalableBody"
    THEN [err |-> MkWrapError("failed to marshal request body", "json: unsupported type"),
          result |-> oldResult]
    ELSE IF kind = "invalidMethod"
    THEN [err |-> MkWrapError("failed to create request", "net/http: invalid method"),
          result |-> oldResult]
    ELSE IF outcome.kind = "transportError"
    THEN [err |-> MkConnectionError(outcome.cause), result |-> oldResult]
    ELSE IF outcome.kind = "readError"
    THEN [err |-> MkWrapError("failed to read response body", outcome.cause),
          result |-> oldResult]
    ELSE IF outcome.status >= 400
    THEN [err |-> handleErrorResponse(outcome.status, outcome.body), result |-> oldResult]
    ELSE IF withResult
    THEN LET dec == UnmarshalResult(outcome.body)
         IN  IF dec.ok
             THEN [err |-> NoError, result |-> dec.value]
             ELSE [err |-> MkWrapError("failed to unmarshal response", "json syntax error"),
                   result |-> oldResult]
    ELSE [err |-> NoError, result |-> oldResult]


-----------------------------------------------------------------------------
(* RetryLogic: NewRetryLogic, calculateDelay *)

\* NewRetryLogic: baseDelay 250 * time.Millisecond, maxDelay 10 * time.Second
baseDelay == 250
maxDelay == 10000

\* time.Millisecond, in time.Duration's unit (nanoseconds)
NanosPerMilli == 1000000
\* time.Duration is an int64: it holds the values below 2^63
Int64Bits == 63

\* d * 2^n, cut short once it exceeds cap (it only grows from there)
RECURSIVE TimesPow2(_, _, _)
TimesPow2(d, n, cap) ==
    IF n = 0 \/ d > cap THEN d ELSE TimesPow2(2 * d, n - 1, cap)

\* the number of binary digits of x > 0
RECURSIVE BitLen(_)
BitLen(x) == IF x = 0 THEN 0 ELSE 1 + BitLen(x \div 2)

\* TRUE iff float64(ns) * math.Pow(2, n) is below 2^63 (the product is exact:
\* ns has fewer than 53 binary digits)
FitsInt64(ns, n) == BitLen(ns) + n <= Int64Bits

\* math.MinInt64 nanoseconds: shown as the least duration the model's
\* integers hold
MinDuration == 0 - 2147483647

\* time.Duration(f) for a float64 f that int64 cannot represent: the Go
\* specification leaves the result to the implementation.  amd64 yields
\* math.MinInt64, arm64 saturates to math.MaxInt64 (any value above maxDelay
\* behaves the same in calculateDelay, so maxDelay + 1 stands for it).
OutOfRangeConversions == {MinDuration, maxDelay + 1}

\* calculateDelay(attempt): the set of durations the builds can return
calculateDelay(att) ==
    LET converted ==
            IF FitsInt64(baseDelay * NanosPerMilli, att)
            THEN {TimesPow2(baseDelay, att, maxDelay)}
            ELSE OutOfRangeConversions
    IN  {IF delay > maxDelay THEN maxDelay ELSE delay : delay \in converted}

-----------------------------------------------------------------------------
(* RetryLogic.Do, with fn the closure of DoRequest *)

RetryValues == (0 - NegRetriesBound) .. MaxRetriesBound

\* ctx.Err()
CtxErr(c) ==
    MkError("contextError", 0,
            IF c = "deadline" THEN "context deadline exceeded" ELSE "context canceled",
            "", NoDetails, "")

Return(tag, err, n) ==
    /\ pc' = "returned"
    /\ retTag' = tag
    /\ retErr' = err
    /\ retCount' = n

\* the environment: the caller cancels the context or its deadline passes
Cancel ==
    /\ ctx = "active"
    /\ ctx' \in {"canceled", "deadline"}
    /\ UNCHANGED <<maxRetries, pc, hasResult, reqKind, attempt, calls, delays,
                   lastErr, outcomes, result, retTag, retErr, retCount,
                   ctxDoneAtEntry>>
    /\ UNCHANGED <<delayVars, errorVars, restVars>>

\* DoRequest is called: Do is entered and its loop condition is evaluated for
\* attempt = 0.  With maxRetries < 0 the body never runs and Do falls through
\* to the final fmt.Errorf.
DoRequest(kind, withResult) ==
    /\ pc = "idle"
    /\ reqKind' = kind
    /\ hasResult' = withResult
    /\ ctxDoneAtEntry' = (ctx # "active")
    /\ attempt' = 0
    /\ IF 0 <= maxRetries
       THEN /\ pc' = "loop"
            /\ UNCHANGED <<retTag, retErr, retCount>>
       ELSE Return("exhausted", lastErr, maxRetries + 1)
    /\ UNCHANGED <<maxRetries, ctx, calls, delays, lastErr, outcomes, result>>
    /\ UNCHANGED <<delayVars, errorVars, restVars>>

\* One iteration of Do's loop: the cancellation check, fn(), the decision on
\* its error, the backoff wait (during which the context may be cancelled:
\* cancelInWait), attempt++ and the loop condition.
DoIteration(outcome, cancelInWait) ==
    /\ pc = "loop"
    /\ IF ctx # "active"
       THEN /\ Return("ctx", CtxErr(ctx), 0)
            /\ UNCHANGED <<ctx, attempt, calls, delays, lastErr, outcomes, result>>
       ELSE LET r == doRequestOnce(reqKind, outcome, hasResult, result)
                err == r.err
            IN  /\ calls' = calls + 1
                /\ outcomes' = IF SendsRequest(reqKind)
                               THEN Append(outcomes, outcome) ELSE outcomes
                /\ result' = r.result
                /\ IF err = NoError
                   THEN /\ Return("nil", NoError, 0)
                        /\ UNCHANGED <<ctx, attempt, delays, lastErr>>
                   ELSE /\ lastErr' = err
                        /\ IF ~isRetryableError(err)
                           THEN /\ Return("err", err, 0)
                                /\ UNCHANGED <<ctx, attempt, delays>>
                           ELSE IF attempt < maxRetries
                           THEN IF cancelInWait # "none"
                                THEN /\ ctx' = cancelInWait
                                     /\ Return("ctx", CtxErr(cancelInWait), 0)
                                     /\ UNCHANGED <<attempt, delays>>
                                ELSE /\ \E delay \in calculateDelay(attempt) :
                                            delays' = Append(delays, delay)
                                     /\ attempt' = attempt + 1
                                     /\ UNCHANGED <<ctx, pc, retTag, retErr, retCount>>
                           ELSE /\ attempt' = attempt + 1
                                /\ Return("exhausted", err, maxRetries + 1)
                                /\ UNCHANGED <<ctx, delays>>
    /\ UNCHANGED <<maxRetries, hasResult, reqKind, ctxDoneAtEntry>>
    /\ UNCHANGED <<delayVars, errorVars, restVars>>

DelayIdle == delayArg = 0 /\ delayOut = <<>>
ErrorIdle == errIn = <<>> /\ errOut = NoError /\ retryableOut = "none"

\* most requests the web front end handles at the same time
MaxHandlers == 2
Handlers == 1 .. MaxHandlers

\* a handler goroutine that is serving no request
IdleHandler ==
    [pc |-> "idle", kind |-> "none", op |-> "none", id |-> 0, token |-> "", info |-> FALSE,
     found |-> FALSE, status |-> 0, cookie |-> <<>>, late |-> FALSE]

\* newSessionStore, an unlocked sync.RWMutex and no request: the map from
\* session ids to their data, whether a write of the map is under way, who
\* holds the lock, the ids handed out and logged out, and the store
\* operations in the order they touched the map
NoWeb ==
    [sessions |-> <<>>, torn |-> FALSE, writer |-> 0, readers |-> {},
     generated |-> 0, issued |-> {}, loggedOut |-> {}, started |-> 0, ops |-> <<>>,
     h |-> [x \in Handlers |-> IdleHandler]]

\* most goroutines that call one client at the same time
MaxCallers == 2
Callers == 1 .. MaxCallers

\* a caller that has not called the client
IdleRequest ==
    [pc |-> "idle", op |-> "none", path |-> <<>>, url |-> <<>>, attempt |-> 0,
     calls |-> 0, outcomes |-> <<>>, lastErr |-> NoError, retTag |-> "pending",
     retErr |-> NoError, retCount |-> 0, result |-> NoResult]
NoRequests == [r \in Callers |-> IdleRequest]

\* the zero ClientConfig
NoConfig ==
    [AccessToken |-> "", BaseURL |-> <<>>, Timeout |-> 0, MaxRetries |-> 0,
     UserAgent |-> "", HTTPClient |-> "nil"]

NewIdle ==
    /\ envToken = ""
    /\ envBaseURL = <<>>
    /\ optsGiven = <<>>
    /\ optIdx = 0
    /\ config = NoConfig
    /\ newPc = "idle"
    /\ client = <<>>
    /\ built = {}
    /\ newErr = NoError
    /\ inflight = NoRequests

\* no call of an iterator method has returned yet
NoCall ==
    [op |-> "none", item |-> <<>>, items |-> <<>>, err |-> NoError, bool |-> FALSE,
     collected |-> <<>>, fetched |-> 0]

IterIdle ==
    /\ it = <<>>
    /\ itPc = "idle"
    /\ fetches = 0
    /\ requests = <<>>
    /\ pages = <<>>
    /\ yielded = <<>>
    /\ sliceItems = <<>>
    /\ sliceStart = -1
    /\ sliceFrom = 0
    /\ lastCall = NoCall

QueryIdle ==
    /\ qIn = <<>>
    /\ qOp = "none"
    /\ qOut = <<>>

WebIdle == web = NoWeb

RestIdle == NewIdle /\ IterIdle /\ QueryIdle /\ WebIdle

PipelineIdle ==
    /\ ctx = "active"
    /\ pc = "idle"
    /\ hasResult = FALSE
    /\ reqKind = "noBody"
    /\ attempt = 0
    /\ calls = 0
    /\ delays = <<>>
    /\ lastErr = NoError
    /\ outcomes = <<>>
    /\ result = NoResult
    /\ retTag = "pending"
    /\ retErr = NoError
    /\ retCount = 0
    /\ ctxDoneAtEntry = FALSE

\* New(WithMaxRetries(n), ...) has returned a client
Init ==
    /\ maxRetries \in RetryValues
    /\ PipelineIdle
    /\ DelayIdle
    /\ ErrorIdle
    /\ RestIdle

Next ==
    \/ Cancel
    \/ \E kind \in RequestKinds, withResult \in BOOLEAN : DoRequest(kind, withResult)
    \/ \E outcome \in Outcomes, cancelInWait \in {"none", "canceled", "deadline"} :
            DoIteration(outcome, cancelInWait)

Spec == Init /\ [][Next]_vars


-----------------------------------------------------------------------------
(* calculateDelay applied to every attempt index up to MaxAttemptIndex *)

\* New: MaxRetries: 2
DefaultMaxRetries == 2

InitDelay ==
    /\ maxRetries = DefaultMaxRetries
    /\ PipelineIdle
    /\ ErrorIdle
    /\ RestIdle
    /\ delayArg \in 0 .. MaxAttemptIndex
    /\ delayOut = <<>>

CalculateDelay ==
    /\ delayOut = <<>>
    /\ \E delay \in calculateDelay(delayArg) : delayOut' = <<delay>>
    /\ UNCHANGED <<delayArg, pipelineVars, errorVars, restVars>>

NextDelay == CalculateDelay

SpecDelay == InitDelay /\ [][NextDelay]_vars

-----------------------------------------------------------------------------
(* handleErrorResponse and IsRetryableError applied to every error value *)

\* the statuses doRequestOnce hands to handleErrorResponse
ErrorStatuses == {st \in Statuses : st >= 400}

\* Error values of every type, as a caller or the pipeline can build them.
ErrorValues ==
    {MkAPIError(t, st, "test error", "", NoDetails) :
        t \in APIErrorTypes, st \in ErrorStatuses}
    \cup {MkError(t, 0, "request failed: " \o c, "", NoDetails, c) :
            t \in ConnectionErrorTypes, c \in TransportCauses}
    \cup {MkWrapError(m, "cause") :
            m \in {"failed to marshal request body", "failed to create request",
                   "failed to read response body", "failed to unmarshal response",
                   "request failed after 3 attempts"}}
    \cup {CtxErr(c) : c \in {"canceled", "deadline"}}

\* Either a response (status, body) to classify, or an error value to judge.
InitErrors ==
    /\ maxRetries = DefaultMaxRetries
    /\ PipelineIdle
    /\ DelayIdle
    /\ RestIdle
    /\ retryableOut = "none"
    /\ \/ /\ errIn \in {<<st, b>> : st \in ErrorStatuses, b \in Bodies}
          /\ errOut = NoError
       \/ /\ errIn = <<>>
          /\ errOut \in ErrorValues

Classify ==
    /\ errIn # <<>>
    /\ errOut = NoError
    /\ errOut' = handleErrorResponse(errIn[1], errIn[2])
    /\ UNCHANGED <<errIn, retryableOut, pipelineVars, delayVars, restVars>>

CheckRetryable ==
    /\ errOut # NoError
    /\ retryableOut = "none"
    /\ retryableOut' = IF IsRetryableError(errOut) THEN "yes" ELSE "no"
    /\ UNCHANGED <<errIn, errOut, pipelineVars, delayVars, restVars>>

NextErrors == Classify \/ CheckRetryable

SpecErrors == InitErrors /\ [][NextErrors]_vars


-----------------------------------------------------------------------------
(* New: the configuration resolver *)

\* most options one call of New is given
MaxOptions == 2

\* New: Timeout: 30 * time.Second, in seconds
DefaultTimeout == 30

\* Strings whose last character matters are sequences of characters; a
\* multi-character element stands for a run of characters other than "/".
DefaultBaseURL == <<"http://localhost:23373">>
BaseURLs == {<<"https://api.example.com">>, <<"https://api.example.com", "/">>}
Tokens == {"", "test-token", "other-token"}

MkOption(name, str, num, url) == [name |-> name, str |-> str, num |-> num, url |-> url]

\* the ClientOption values of the model
Options ==
    {MkOption("WithAccessToken", t, 0, <<>>) : t \in Tokens}
    \cup {MkOption("WithBaseURL", "", 0, u) : u \in BaseURLs}
    \cup {MkOption("WithMaxRetries", "", n, <<>>) : n \in RetryValues}
    \cup {MkOption("WithTimeout", "", 5, <<>>),
          MkOption("WithUserAgent", "test-agent", 0, <<>>),
          MkOption("WithHTTPClient", "customClient", 0, <<>>)}

RECURSIVE SeqsUpTo(_, _)
\* the sequences over S of length at most n
SeqsUpTo(S, n) ==
    IF n = 0 THEN {<<>>}
    ELSE LET shorter == SeqsUpTo(S, n - 1)
         IN  shorter \cup {Append(q, x) : q \in shorter, x \in S}

\* getEnvWithDefault
getEnvWithDefault(value, defaultValue) ==
    IF value = <<>> THEN defaultValue ELSE value

\* the ClientConfig New starts from
DefaultConfig(token, baseURL) ==
    [AccessToken |-> token,
     BaseURL |-> getEnvWithDefault(baseURL, DefaultBaseURL),
     Timeout |-> DefaultTimeout,
     MaxRetries |-> DefaultMaxRetries,
     UserAgent |-> "beeper-desktop-api-go/Version",
     HTTPClient |-> "nil"]

\* opt(config): what each With... closure assigns
applyOption(opt, cfg) ==
    CASE opt.name = "WithAccessToken" -> [cfg EXCEPT !.AccessToken = opt.str]
      [] opt.name = "WithBaseURL" -> [cfg EXCEPT !.BaseURL = opt.url]
      [] opt.name = "WithMaxRetries" -> [cfg EXCEPT !.MaxRetries = opt.num]
      [] opt.name = "WithTimeout" -> [cfg EXCEPT !.Timeout = opt.num]
      [] opt.name = "WithUserAgent" -> [cfg EXCEPT !.UserAgent = opt.str]
      [] opt.name = "WithHTTPClient" -> [cfg EXCEPT !.HTTPClient = opt.str]

\* a validation that lets every token through
tokenMissingNever(cfg) == FALSE

\* New: config.AccessToken == ""
tokenMissing(cfg) == cfg.AccessToken = ""

\* strings.HasSuffix(u, "/")
HasSuffixSlash(u) == Len(u) > 0 /\ u[Len(u)] = "/"

\* a normalisation that appends a slash to every base URL
normalizeBaseURLAlways(u) == Append(u, "/")

\* New: "Ensure base URL ends with /"
normalizeBaseURL(u) == IF HasSuffixSlash(u) THEN u ELSE Append(u, "/")

\* &BeeperDesktop{...}
MkClient(cfg) ==
    [accessToken |-> cfg.AccessToken,
     baseURL |-> cfg.BaseURL,
     timeout |-> cfg.Timeout,
     maxRetries |-> cfg.MaxRetries,
     userAgent |-> cfg.UserAgent,
     httpClient |-> IF cfg.HTTPClient = "nil" THEN "http.Client" ELSE cfg.HTTPClient,
     retryLogic |-> [maxRetries |-> cfg.MaxRetries, baseDelay |-> baseDelay,
                     maxDelay |-> maxDelay]]

InitNew ==
    /\ maxRetries = DefaultMaxRetries
    /\ PipelineIdle
    /\ DelayIdle
    /\ ErrorIdle
    /\ envToken \in {"", "env-token"}
    /\ envBaseURL \in {<<>>} \cup BaseURLs
    /\ optsGiven \in SeqsUpTo(Options, MaxOptions)
    /\ optIdx = 0
    /\ config = NoConfig
    /\ newPc = "idle"
    /\ client = <<>>
    /\ built = {}
    /\ newErr = NoError
    /\ inflight = NoRequests
    /\ IterIdle
    /\ QueryIdle
    /\ WebIdle

\* New is entered: the defaults are read from the environment
NewEnter ==
    /\ newPc = "idle"
    /\ config' = DefaultConfig(envToken, envBaseURL)
    /\ newPc' = "options"
    /\ UNCHANGED <<envToken, envBaseURL, optsGiven, optIdx, client, built, newErr, inflight>>
    /\ UNCHANGED notNewVars

\* for _, opt := range opts { opt(config) }
NewApplyOption ==
    /\ newPc = "options"
    /\ optIdx < Len(optsGiven)
    /\ config' = applyOption(optsGiven[optIdx + 1], config)
    /\ optIdx' = optIdx + 1
    /\ UNCHANGED <<envToken, envBaseURL, optsGiven, newPc, client, built, newErr, inflight>>
    /\ UNCHANGED notNewVars

\* the token check and, past it, the base URL normalisation
NewValidate ==
    /\ newPc = "options"
    /\ optIdx = Len(optsGiven)
    /\ IF tokenMissing(config)
       THEN /\ newPc' = "returned"
            /\ newErr' = MkAPIError("AuthenticationError", 401,
                                    "access token is required", "", NoDetails)
            /\ UNCHANGED config
       ELSE /\ newPc' = "construct"
            /\ config' = [config EXCEPT !.BaseURL = normalizeBaseURL(config.BaseURL)]
            /\ UNCHANGED newErr
    /\ UNCHANGED <<envToken, envBaseURL, optsGiven, optIdx, client, built, inflight>>
    /\ UNCHANGED notNewVars

\* the HTTP client, the retry engine, the client and its resource handles
NewConstruct ==
    /\ newPc = "construct"
    /\ built' = {"httpClient", "retryLogic", "client", "resources"}
    /\ client' = <<MkClient(config)>>
    /\ newPc' = "returned"
    /\ UNCHANGED <<envToken, envBaseURL, optsGiven, optIdx, config, newErr, inflight>>
    /\ UNCHANGED notNewVars

NextNew == NewEnter \/ NewApplyOption \/ NewValidate \/ NewConstruct

SpecNew == InitNew /\ [][NextNew]_vars

-----------------------------------------------------------------------------
(* Go values, as reflect and the type assertions of the code see them *)

\* A value: its dynamic kind and payload.  elems holds what a pointer points
\* to (empty for nil), the elements of a slice, or the [key, val] entries of a
\* map; elem is "interface" when the element type of a slice or map is
\* interface{}, else "concrete".
MkValue(kind, str, num, bool, elems, elem) ==
    [kind |-> kind, str |-> str, num |-> num, bool |-> bool, elems |-> elems,
     elem |-> elem]

GoString(s) == MkValue("string", s, 0, FALSE, <<>>, "concrete")
GoInt(n) == MkValue("int", "", n, FALSE, <<>>, "concrete")
GoBool(b) == MkValue("bool", "", 0, b, <<>>, "concrete")
\* time.Time: a struct with a String method; str is what String() gives
GoTime(s) == MkValue("time", s, 0, FALSE, <<>>, "concrete")
\* the nil interface value
GoNil == MkValue("nil", "", 0, FALSE, <<>>, "concrete")
\* *T: str names T
GoPtr(v) == MkValue("ptr", v.kind, 0, FALSE, <<v>>, "concrete")
\* a nil *T
GoNilPtr(t) == MkValue("ptr", t, 0, FALSE, <<>>, "concrete")
\* []T, nil when isNil
GoSlice(elem, vs, isNil) == MkValue("slice", "", 0, isNil, vs, elem)
MkEntry(k, v) == [key |-> k, val |-> v]
\* map[string]T with the given entries, nil when isNil
GoMap(elem, entries, isNil) == MkValue("map", "", 0, isNil, entries, elem)

\* m[key]: <<the value>>, or <<>> when the key is absent
MapGet(m, key) ==
    LET hits == {i \in 1 .. Len(m.elems) : m.elems[i].key = key}
    IN  IF hits = {} THEN <<>> ELSE <<m.elems[CHOOSE i \in hits : TRUE].val>>

\* m[key] = v
MapSet(m, key, v) ==
    LET hits == {i \in 1 .. Len(m.elems) : m.elems[i].key = key}
    IN  IF hits = {}
        THEN [m EXCEPT !.elems = Append(@, MkEntry(key, v)), !.bool = FALSE]
        ELSE [m EXCEPT !.elems[CHOOSE i \in hits : TRUE].val = v]

MapKeys(m) == {m.elems[i].key : i \in 1 .. Len(m.elems)}

\* a struct field: its json tag split at the commas (<<>> for no tag), whether
\* it is exported, whether its static type is interface{}, and its value
MkField(tag, exported, iface, val) ==
    [tag |-> tag, exported |-> exported, iface |-> iface, val |-> val]
GoStruct(fields) == MkValue("struct", "", 0, FALSE, fields, "concrete")

Digits == <<"0", "1", "2", "3", "4", "5", "6", "7", "8", "9">>

RECURSIVE FormatUint(_)
\* strconv.FormatUint(n, 10)
FormatUint(n) ==
    IF n < 10 THEN Digits[n + 1] ELSE FormatUint(n \div 10) \o Digits[(n % 10) + 1]

\* strconv.FormatInt(n, 10)
FormatInt(n) == IF n < 0 THEN "-" \o FormatUint(0 - n) ELSE FormatUint(n)

\* strconv.Itoa
Itoa(n) == FormatInt(n)

\* strconv.FormatBool
FormatBool(b) == IF b THEN "true" ELSE "false"

-----------------------------------------------------------------------------
(* The page iterator *)

\* most calls of DoRequestWithQuery one iterator makes
MaxFetches == 3
\* most items of one page
MaxPageSize == 2

\* the cursor a server attaches to its k-th answer, when it attaches one:
\* a *string, <<>> for nil
FreshCursor(k) == <<"c" \o Itoa(k)>>

MkPagination(cursor, hasMore) == [Cursor |-> cursor, HasMore |-> hasMore]

\* What one DoRequestWithQuery gives fetchNextPage: an error, or the decoded
\* Cursor[T]; pagination is <<>> for a nil *PaginationInfo.
MkResponse(kind, items, pagination, err) ==
    [kind |-> kind, items |-> items, pagination |-> pagination, err |-> err]

\* the items a server that has served n items puts on a page of k
PageItems(n, k) == [i \in 1 .. k |-> n + i]

\* the answers to the k-th request of a server that has served n items
Responses(n, k) ==
    {MkResponse("error", <<>>, <<>>, e) :
        e \in {MkAPIError("InternalServerError", 500, "test error", "", NoDetails)}}
    \cup {MkResponse("page", PageItems(n, sz), <<>>, NoError) : sz \in 0 .. MaxPageSize}
    \cup {MkResponse("page", PageItems(n, sz), <<MkPagination(c, TRUE)>>, NoError) :
            sz \in 0 .. MaxPageSize, c \in {<<>>, <<"">>, FreshCursor(k)}}
    \cup {MkResponse("page", PageItems(n, sz), <<MkPagination(c, FALSE)>>, NoError) :
            sz \in 0 .. MaxPageSize, c \in {<<>>, FreshCursor(k)}}

\* TRUE iff Next has to call fetchNextPage
NeedsFetch(iter) == ~(iter.currentIdx < Len(iter.currentPage)) /\ iter.hasMore

RECURSIVE ItemsServed(_)
\* how many items the pages served so far carry
ItemsServed(ps) ==
    IF ps = <<>> THEN 0 ELSE Len(ps[Len(ps)].items) + ItemsServed(SubSeq(ps, 1, Len(ps) - 1))

\* what a call that sends no request is answered
NoResponse == MkResponse("none", <<>>, <<>>, NoError)

\* the answers the server may give the call the iterator is about to make
Answers(iter, ps) ==
    IF NeedsFetch(iter) THEN Responses(ItemsServed(ps), Len(ps) + 1) ELSE {NoResponse}

\* the maps a caller hands NewIterator
CallerParams ==
    { GoMap("interface", <<>>, FALSE),
      GoMap("interface",
            <<MkEntry("cursor", GoString("c0")), MkEntry("limit", GoInt(2)),
              MkEntry("direction", GoString("before")),
              MkEntry("query", GoString("hello"))>>, FALSE),
      GoMap("interface",
            <<MkEntry("cursor", GoPtr(GoString("c0"))), MkEntry("limit", GoPtr(GoInt(2))),
              MkEntry("chatType", GoNilPtr("string")),
              MkEntry("query", GoPtr(GoString("hello")))>>, FALSE) }

\* params[key].(string): the zero value unless the entry is a string
AssertString(m, key) ==
    LET got == MapGet(m, key)
    IN  IF got # <<>> /\ got[1].kind = "string" THEN got[1].str ELSE ""

\* params[key].(int)
AssertInt(m, key) ==
    LET got == MapGet(m, key)
    IN  IF got # <<>> /\ got[1].kind = "int" THEN got[1].num ELSE 0

\* NewIterator; the three pointers are <<value>>
NewIterator(params) ==
    [params |-> params,
     cursor |-> <<AssertString(params, "cursor")>>,
     limit |-> <<AssertInt(params, "limit")>>,
     direction |-> <<AssertString(params, "direction")>>,
     hasMore |-> TRUE,
     currentIdx |-> 0,
     currentPage |-> <<>>]

\* a HasNext that looks at the buffer only
HasNextBufferOnly(iter) == iter.currentIdx < Len(iter.currentPage)

\* HasNext
HasNext(iter) == iter.currentIdx < Len(iter.currentPage) \/ iter.hasMore

\* fetchNextPage: the map it hands DoRequestWithQuery
RequestParams(iter) ==
    LET p0 == iter.params
        p1 == IF iter.cursor # <<>> /\ iter.cursor[1] # ""
              THEN MapSet(p0, "cursor", GoString(iter.cursor[1])) ELSE p0
        p2 == IF iter.limit # <<>> /\ iter.limit[1] > 0
              THEN MapSet(p1, "limit", GoInt(iter.limit[1])) ELSE p1
    IN  IF iter.direction # <<>> /\ iter.direction[1] # ""
        THEN MapSet(p2, "direction", GoString(iter.direction[1])) ELSE p2

\* a fetchNextPage that appends the new page to the buffer
fetchNextPageAppending(iter, resp) ==
    IF resp.kind = "error"
    THEN [iter |-> iter, err |-> MkWrapError("failed to fetch page", resp.err.type)]
    ELSE [iter |-> [iter EXCEPT
                      !.currentPage = @ \o resp.items,
                      !.cursor = IF resp.pagination # <<>>
                                 THEN resp.pagination[1].Cursor ELSE @,
                      !.hasMore = resp.pagination # <<>> /\ resp.pagination[1].HasMore],
          err |-> NoError]

\* a fetchNextPage that leaves hasMore alone when the page has no pagination
fetchNextPageKeepingMore(iter, resp) ==
    IF resp.kind = "error"
    THEN [iter |-> iter, err |-> MkWrapError("failed to fetch page", resp.err.type)]
    ELSE [iter |-> [iter EXCEPT
                      !.currentPage = resp.items,
                      !.currentIdx = 0,
                      !.cursor = IF resp.pagination # <<>>
                                 THEN resp.pagination[1].Cursor ELSE @,
                      !.hasMore = IF resp.pagination # <<>>
                                  THEN resp.pagination[1].HasMore ELSE @],
          err |-> NoError]

\* a fetchNextPage that takes a page without items for the last one
fetchNextPageEmptyEnds(iter, resp) ==
    IF resp.kind = "error"
    THEN [iter |-> iter, err |-> MkWrapError("failed to fetch page", resp.err.type)]
    ELSE [iter |-> [iter EXCEPT
                      !.currentPage = resp.items,
                      !.currentIdx = 0,
                      !.cursor = IF resp.pagination # <<>>
                                 THEN resp.pagination[1].Cursor ELSE @,
                      !.hasMore = /\ resp.pagination # <<>>
                                  /\ resp.pagination[1].HasMore
                                  /\ resp.items # <<>>],
          err |-> NoError]

\* a fetchNextPage that gives up on further pages when a request fails
fetchNextPageFailureEnds(iter, resp) ==
    IF resp.kind = "error"
    THEN [iter |-> [iter EXCEPT !.hasMore = FALSE],
          err |-> MkWrapError("failed to fetch page", resp.err.type)]
    ELSE [iter |-> [iter EXCEPT
                      !.currentPage = resp.items,
                      !.currentIdx = 0,
                      !.cursor = IF resp.pagination # <<>>
                                 THEN resp.pagination[1].Cursor ELSE @,
                      !.hasMore = resp.pagination # <<>> /\ resp.pagination[1].HasMore],
          err |-> NoError]

\* a fetchNextPage that leaves the index where the old page ended
fetchNextPageKeepingIndex(iter, resp) ==
    IF resp.kind = "error"
    THEN [iter |-> iter, err |-> MkWrapError("failed to fetch page", resp.err.type)]
    ELSE [iter |-> [iter EXCEPT
                      !.currentPage = resp.items,
                      !.cursor = IF resp.pagination # <<>>
                                 THEN resp.pagination[1].Cursor ELSE @,
                      !.hasMore = resp.pagination # <<>> /\ resp.pagination[1].HasMore],
          err |-> NoError]

\* fetchNextPage, given what DoRequestWithQuery answers
fetchNextPage(iter, resp) ==
    IF resp.kind = "error"
    THEN [iter |-> iter, err |-> MkWrapError("failed to fetch page", resp.err.type)]
    ELSE [iter |-> [iter EXCEPT
                      !.currentPage = resp.items,
                      !.currentIdx = 0,
                      !.cursor = IF resp.pagination # <<>>
                                 THEN resp.pagination[1].Cursor ELSE @,
                      !.hasMore = resp.pagination # <<>> /\ resp.pagination[1].HasMore],
          err |-> NoError]

\* a Next that steps over the item after the one it returns
IterNextSkipping(iter, resp) ==
    IF iter.currentIdx < Len(iter.currentPage)
    THEN [iter |-> [iter EXCEPT !.currentIdx = @ + 2],
          item |-> <<iter.currentPage[iter.currentIdx + 1]>>, err |-> NoError]
    ELSE IF ~iter.hasMore
    THEN [iter |-> iter, item |-> <<>>, err |-> NoError]
    ELSE LET f == fetchNextPage(iter, resp)
         IN  IF f.err # NoError
             THEN [iter |-> f.iter, item |-> <<>>, err |-> f.err]
             ELSE IF Len(f.iter.currentPage) > 0
             THEN [iter |-> [f.iter EXCEPT !.currentIdx = 1],
                   item |-> <<f.iter.currentPage[1]>>, err |-> NoError]
             ELSE [iter |-> f.iter, item |-> <<>>, err |-> NoError]

\* Next: the iterator afterwards, the item (<<>> for nil) and the error
IterNext(iter, resp) ==
    IF iter.currentIdx < Len(iter.currentPage)
    THEN [iter |-> [iter EXCEPT !.currentIdx = @ + 1],
          item |-> <<iter.currentPage[iter.currentIdx + 1]>>, err |-> NoError]
    ELSE IF ~iter.hasMore
    THEN [iter |-> iter, item |-> <<>>, err |-> NoError]
    ELSE LET f == fetchNextPage(iter, resp)
         IN  IF f.err # NoError
             THEN [iter |-> f.iter, item |-> <<>>, err |-> f.err]
             ELSE IF Len(f.iter.currentPage) > 0
             THEN [iter |-> [f.iter EXCEPT !.currentIdx = 1],
                   item |-> <<f.iter.currentPage[1]>>, err |-> NoError]
             ELSE [iter |-> f.iter, item |-> <<>>, err |-> NoError]

MkCall(op, item, items, err, bool, collected, fetched) ==
    [op |-> op, item |-> item, items |-> items, err |-> err, bool |-> bool,
     collected |-> collected, fetched |-> fetched]

\* a ToSlice that returns what it had collected together with the error
ToSliceOnErrorPartial(items, err) == [items |-> items, err |-> err]

\* ToSlice: return nil, err
ToSliceOnError(items, err) == [items |-> <<>>, err |-> err]

InitIter ==
    /\ maxRetries = DefaultMaxRetries
    /\ PipelineIdle
    /\ DelayIdle
    /\ ErrorIdle
    /\ NewIdle
    /\ QueryIdle
    /\ WebIdle
    /\ it \in {NewIterator(p) : p \in CallerParams}
    /\ itPc = "ready"
    /\ fetches = 0
    /\ requests = <<>>
    /\ pages = <<>>
    /\ yielded = <<>>
    /\ sliceItems = <<>>
    /\ sliceStart = -1
    /\ sliceFrom = 0
    /\ lastCall = NoCall

\* the bookkeeping of one call of it.Next, with resp what the server would answer
NextEffect(resp) ==
    LET fetch == NeedsFetch(it)
        r == IterNext(it, resp)
    IN  /\ fetch => fetches < MaxFetches
        /\ it' = r.iter
        /\ fetches' = IF fetch THEN fetches + 1 ELSE fetches
        /\ requests' = IF fetch THEN Append(requests, RequestParams(it)) ELSE requests
        /\ pages' = IF fetch THEN Append(pages, resp) ELSE pages

\* the caller calls it.Next
CallNext ==
    /\ itPc = "ready"
    /\ \E resp \in Answers(it, pages) :
         LET r == IterNext(it, resp)
         IN  /\ NextEffect(resp)
             /\ yielded' = yielded \o r.item
             /\ lastCall' = MkCall("Next", r.item, <<>>, r.err, FALSE, <<>>,
                                   IF NeedsFetch(it) THEN 1 ELSE 0)
    /\ UNCHANGED <<itPc, sliceItems, sliceStart, sliceFrom>>
    /\ UNCHANGED notIterVars

\* the caller calls it.HasNext
CallHasNext ==
    /\ itPc = "ready"
    /\ lastCall' = MkCall("HasNext", <<>>, <<>>, NoError, HasNext(it), <<>>, 0)
    /\ UNCHANGED <<it, itPc, fetches, requests, pages, yielded, sliceItems, sliceStart,
                   sliceFrom>>
    /\ UNCHANGED notIterVars

\* the caller calls it.ToSlice: var items []T
CallToSlice ==
    /\ itPc = "ready"
    /\ itPc' = "toSlice"
    /\ sliceItems' = <<>>
    /\ sliceStart' = fetches
    /\ sliceFrom' = Len(yielded)
    /\ UNCHANGED <<it, fetches, requests, pages, yielded, lastCall>>
    /\ UNCHANGED notIterVars

\* one turn of ToSlice's loop, up to its return
ToSliceStep ==
    /\ itPc = "toSlice"
    /\ IF ~HasNext(it)
       THEN /\ itPc' = "ready"
            /\ lastCall' = MkCall("ToSlice", <<>>, sliceItems, NoError, FALSE, sliceItems,
                                  fetches - sliceStart)
            /\ UNCHANGED <<it, fetches, requests, pages, yielded, sliceItems>>
       ELSE \E resp \in Answers(it, pages) :
              LET r == IterNext(it, resp)
              IN  /\ NextEffect(resp)
                  /\ yielded' = yielded \o r.item
                  /\ IF r.err # NoError
                     THEN /\ itPc' = "ready"
                          /\ lastCall' =
                               LET ret == ToSliceOnError(sliceItems, r.err)
                               IN  MkCall("ToSlice", <<>>, ret.items, ret.err, FALSE,
                                          sliceItems, fetches' - sliceStart)
                          /\ UNCHANGED sliceItems
                     ELSE IF r.item = <<>>
                     THEN /\ itPc' = "ready"
                          /\ lastCall' = MkCall("ToSlice", <<>>, sliceItems, NoError, FALSE,
                                                sliceItems, fetches' - sliceStart)
                          /\ UNCHANGED sliceItems
                     ELSE /\ sliceItems' = sliceItems \o r.item
                          /\ UNCHANGED <<itPc, lastCall>>
    /\ UNCHANGED <<sliceStart, sliceFrom>>
    /\ UNCHANGED notIterVars

NextIter == CallNext \/ CallHasNext \/ CallToSlice \/ ToSliceStep

SpecIter == InitIter /\ [][NextIter]_vars

\* ToSlice's loop is running code: once entered it takes its next turn, every
\* request it makes being answered or failed by the client's timeout.
SpecIterFair == SpecIter /\ WF_vars(ToSliceStep)

-----------------------------------------------------------------------------
(* The query encoder *)

\* most entries of a map, most fields of a struct handed to the encoder
MaxEntries == 2

\* url.Values: a function from keys to the list of their values
NoValues == <<>>

\* url.Values.Add
Add(values, key, value) ==
    IF key \in DOMAIN values
    THEN [values EXCEPT ![key] = Append(@, value)]
    ELSE [k \in DOMAIN values \cup {key} |->
            IF k = key THEN <<value>> ELSE values[k]]

\* url.Values.Set
Set(values, key, value) ==
    [k \in DOMAIN values \cup {key} |-> IF k = key THEN <<value>> ELSE values[k]]

MkPair(key, value) == [key |-> key, value |-> value]

RECURSIVE AddAll(_, _)
\* params.Add for each pair of ps, in order
AddAll(values, ps) ==
    IF ps = <<>> THEN values
    ELSE AddAll(Add(values, ps[1].key, ps[1].value), Tail(ps))

\* A reflect.Value: the Kind reflect reports and the value underneath.  A
\* value reached through an interface{}-typed map element, slice element or
\* struct field has Kind Interface whatever it holds.
Reflect(v, iface) == [kind |-> IF iface THEN "interface" ELSE v.kind, v |-> v]

\* reflect.Value.IsNil
IsNil(rv) ==
    CASE rv.kind = "interface" -> rv.v.kind = "nil"
      [] rv.kind = "ptr" -> rv.v.elems = <<>>
      [] rv.kind \in {"slice", "map"} -> rv.v.bool
      [] OTHER -> FALSE

\* reflect.Value.Elem of a pointer
Elem(rv) == Reflect(rv.v.elems[1], FALSE)

\* reflect.Value.Index of a slice
Index(rv, i) == Reflect(rv.v.elems[i], rv.v.elem = "interface")

\* what a run-time panic leaves instead of a string
PanicString == "panic: value method time.Time.String called using nil *Time pointer"

\* the default branch of fieldValueToString: v.Interface() asserted to a
\* Stringer.  time.Time and *time.Time have a String method, a nil *time.Time
\* panics inside it; the other values of the model have none.
StringerString(v) ==
    CASE v.kind = "time" -> v.str
      [] v.kind = "ptr" /\ v.str = "time" ->
            IF v.elems = <<>> THEN PanicString ELSE v.elems[1].str
      [] OTHER -> ""

RECURSIVE fieldValueToString(_), JoinElems(_, _)
\* fieldValueToString
fieldValueToString(rv) ==
    IF rv.kind = "ptr" /\ IsNil(rv)
    THEN ""
    ELSE LET v == IF rv.kind = "ptr" THEN Elem(rv) ELSE rv
         IN  CASE v.kind = "string" -> v.v.str
               [] v.kind = "int" -> FormatInt(v.v.num)
               [] v.kind = "bool" -> FormatBool(v.v.bool)
               [] v.kind = "slice" ->
                    IF Len(v.v.elems) = 0 THEN "" ELSE JoinElems(v, Len(v.v.elems))
               [] OTHER -> StringerString(v.v)
\* the slice case: the first n elements joined by ","
JoinElems(rv, n) ==
    LET last == fieldValueToString(Index(rv, n))
    IN  IF n = 1 THEN last
        ELSE LET before == JoinElems(rv, n - 1)
             IN  IF PanicString \in {before, last} THEN PanicString
                 ELSE before \o "," \o last

\* an emission test that lets the empty string through
emitsAlways(str) == TRUE

\* valueStr != "", elemStr == "" and subValueStr == "": what may be emitted
emits(str) == str # ""

RECURSIVE EntryPairs(_, _, _)
\* the (key, value) pairs the first n entries of the map rv yield, each key
\* prefixed with prefix; both map loops skip nil entries and empty strings
EntryPairs(rv, prefix, n) ==
    IF n = 0 THEN <<>>
    ELSE LET e == rv.v.elems[n]
             value == Reflect(e.val, rv.v.elem = "interface")
             before == EntryPairs(rv, prefix, n - 1)
         IN  IF value.kind \in {"ptr", "map", "slice", "interface"} /\ IsNil(value)
             THEN before
             ELSE LET str == fieldValueToString(value)
                  IN  IF emits(str) THEN Append(before, MkPair(prefix \o e.key, str))
                      ELSE before

\* strings.Join(values, ",")
RECURSIVE Join(_)
Join(strs) ==
    IF Len(strs) = 1 THEN strs[1]
    ELSE Join(SubSeq(strs, 1, Len(strs) - 1)) \o "," \o strs[Len(strs)]

RECURSIVE ElemStrings(_, _)
\* the slice loop of the struct branch: the element strings it keeps
ElemStrings(rv, n) ==
    IF n = 0 THEN <<>>
    ELSE LET str == fieldValueToString(Index(rv, n))
         IN  IF emits(str) THEN Append(ElemStrings(rv, n - 1), str)
             ELSE ElemStrings(rv, n - 1)

\* the pairs one struct field yields
FieldPairs(f) ==
    IF ~f.exported \/ f.tag = <<>> \/ f.tag = <<"-">>
    THEN <<>>
    ELSE LET name == f.tag[1]
             field == Reflect(f.val, f.iface)
         IN  IF field.kind = "ptr" /\ IsNil(field)
             THEN <<>>
             ELSE LET fieldValue == IF field.kind = "ptr" THEN Elem(field) ELSE field
                  IN  CASE fieldValue.kind = "slice" ->
                             LET values == ElemStrings(fieldValue, Len(fieldValue.v.elems))
                             IN  IF PanicString \in {values[i] : i \in 1 .. Len(values)}
                                 THEN <<MkPair(name, PanicString)>>
                                 ELSE IF Len(values) > 0
                                 THEN <<MkPair(name, Join(values))>>
                                 ELSE <<>>
                        [] fieldValue.kind = "map" ->
                             EntryPairs(fieldValue, name \o ".", Len(fieldValue.v.elems))
                        [] OTHER ->
                             LET value == fieldValueToString(field)
                             IN  IF emits(value) THEN <<MkPair(name, value)>> ELSE <<>>

RECURSIVE StructPairs(_, _)
StructPairs(fields, n) ==
    IF n = 0 THEN <<>> ELSE StructPairs(fields, n - 1) \o FieldPairs(fields[n])

\* what the encoder hands back: url.Values, unless it panicked on the way
MkEncoded(ps) ==
    IF \E i \in 1 .. Len(ps) : ps[i].value = PanicString
    THEN [panic |-> TRUE, values |-> NoValues]
    ELSE [panic |-> FALSE, values |-> AddAll(NoValues, ps)]

\* StructToQueryParams
StructToQueryParams(v) ==
    LET top == Reflect(v, FALSE)
    IN  IF top.kind = "ptr" /\ IsNil(top)
        THEN MkEncoded(<<>>)
        ELSE LET val == IF top.kind = "ptr" THEN Elem(top) ELSE top
             IN  CASE val.kind = "map" -> MkEncoded(EntryPairs(val, "", Len(val.v.elems)))
                   [] val.kind = "struct" ->
                        MkEncoded(StructPairs(val.v.elems, Len(val.v.elems)))
                   [] OTHER -> MkEncoded(<<>>)

\* The request handed to DoRequest: the path, whether "?" and a query string
\* were appended, the query as the server's r.URL.Query() parses it back from
\* queryValues.Encode(), and whether a body goes with it.
MkSent(path, enc, op) ==
    [op |-> op, path |-> path, panic |-> enc.panic,
     hasQuery |-> DOMAIN enc.values # {}, query |-> enc.values, hasBody |-> FALSE]

\* DoRequestWithQuery, up to its call of DoRequest
DoRequestWithQuery(path, query) ==
    MkSent(path, StructToQueryParams(query), "DoRequestWithQuery")

\* a time.Time by its renderings: String() and Format(time.RFC3339Nano)
MkTime(str, nano) == [str |-> str, nano |-> nano]
Time1 == MkTime("2024-01-02 03:04:05.5 +0000 UTC", "2024-01-02T03:04:05.5Z")

\* a key in indexed-bracket form that counts from 1
BracketKeyFromOne(name, idx) == name \o "[" \o Itoa(idx + 1) \o "]"

\* name + "[" + strconv.Itoa(idx) + "]"
BracketKey(name, idx) == name \o "[" \o Itoa(idx) \o "]"

RECURSIVE AddIndexed(_, _, _, _)
\* for idx, id := range list { query.Add(name[idx], id) }, the first n elements
AddIndexed(values, name, list, n) ==
    IF n = 0 THEN values
    ELSE Add(AddIndexed(values, name, list, n - 1), BracketKey(name, n - 1), list[n])

\* if p != nil { query.Set(name, str(*p)) }
SetIfPresent(values, name, p, str) ==
    IF p # <<>> THEN Set(values, name, str) ELSE values

\* Messages.Search, up to its call of DoRequest.  A list is a sequence (a nil
\* and an empty slice both have length 0), a pointer is <<>> or <<value>>.
MessagesSearch(params) ==
    LET q1 == AddIndexed(NoValues, "accountIDs", params.AccountIDs, Len(params.AccountIDs))
        q2 == AddIndexed(q1, "chatIDs", params.ChatIDs, Len(params.ChatIDs))
        q3 == SetIfPresent(q2, "chatType", params.ChatType,
                           IF params.ChatType # <<>> THEN params.ChatType[1] ELSE "")
        q4 == SetIfPresent(q3, "cursor", params.Cursor,
                           IF params.Cursor # <<>> THEN params.Cursor[1] ELSE "")
        q5 == SetIfPresent(q4, "dateAfter", params.DateAfter,
                           IF params.DateAfter # <<>> THEN params.DateAfter[1].nano ELSE "")
        q6 == SetIfPresent(q5, "dateBefore", params.DateBefore,
                           IF params.DateBefore # <<>> THEN params.DateBefore[1].nano ELSE "")
        q7 == SetIfPresent(q6, "direction", params.Direction,
                           IF params.Direction # <<>> THEN params.Direction[1] ELSE "")
        q8 == SetIfPresent(q7, "excludeLowPriority", params.ExcludeLowPriority,
                           IF params.ExcludeLowPriority # <<>>
                           THEN FormatBool(params.ExcludeLowPriority[1]) ELSE "")
        q9 == SetIfPresent(q8, "includeMuted", params.IncludeMuted,
                           IF params.IncludeMuted # <<>>
                           THEN FormatBool(params.IncludeMuted[1]) ELSE "")
        q10 == SetIfPresent(q9, "limit", params.Limit,
                            IF params.Limit # <<>> THEN Itoa(params.Limit[1]) ELSE "")
        q11 == AddIndexed(q10, "mediaTypes", params.MediaTypes, Len(params.MediaTypes))
        q12 == SetIfPresent(q11, "query", params.Query,
                            IF params.Query # <<>> THEN params.Query[1] ELSE "")
        q13 == AddIndexed(q12, "senderIDs", params.SenderIDs, Len(params.SenderIDs))
    IN  MkSent("/v0/search-messages", [panic |-> FALSE, values |-> q13], "MessagesSearch")

\* the MessageSearchParams of the model
SearchInputs ==
    [AccountIDs : {<<>>, <<"account-1", "account-2">>},
     ChatIDs : {<<>>, <<"chat-1">>},
     ChatType : {<<>>, <<"group">>},
     Cursor : {<<>>, <<"c0">>},
     DateAfter : {<<>>, <<Time1>>},
     DateBefore : {<<>>},
     Direction : {<<>>, <<"before">>},
     ExcludeLowPriority : {<<>>, <<FALSE>>},
     IncludeMuted : {<<>>, <<TRUE>>},
     Limit : {<<>>, <<25>>, <<0>>},
     MediaTypes : {<<>>, <<"img", "video", "audio">>},
     Query : {<<>>, <<"hello">>},
     SenderIDs : {<<>>, <<"user-1">>}]

\* the values the entries of a flat parameter map hold: non-empty strings,
\* integers and booleans
FlatValues ==
    {GoString("alice"), GoInt(25), GoInt(0), GoInt(-3), GoBool(TRUE), GoBool(FALSE)}

\* the other values an interface{} entry, element or field may hold
OtherValues ==
    {GoString(""), GoNil, GoNilPtr("string"), GoPtr(GoString("bob")),
     GoTime(Time1.str), GoNilPtr("time"),
     GoSlice("concrete", <<GoString("a"), GoString("b")>>, FALSE)}

QueryKeys == <<"query", "limit", "accountID">>

\* the entry lists of at most n entries, with keys in the order of QueryKeys
RECURSIVE EntryLists(_, _)
EntryLists(n, S) ==
    IF n = 0 THEN {<<>>}
    ELSE LET shorter == EntryLists(n - 1, S)
         IN  shorter \cup {Append(es, MkEntry(QueryKeys[Len(es) + 1], v)) :
                             es \in {x \in shorter : Len(x) = n - 1}, v \in S}

\* the map[string]interface{} values handed to DoRequestWithQuery
QueryMaps ==
    {GoMap("interface", es, FALSE) : es \in EntryLists(MaxEntries, FlatValues \cup OtherValues)}
    \cup {GoMap("interface", <<>>, TRUE)}

\* the struct fields of the model
Fields ==
    {MkField(<<"mediaTypes", "omitempty">>, TRUE, FALSE, GoSlice("concrete", l, FALSE)) :
        l \in {<<>>, <<GoString("img"), GoString("video")>>,
               <<GoString("a"), GoString(""), GoString("b")>>, <<GoString("")>>,
               <<GoInt(1), GoInt(2)>>}}
    \cup {MkField(<<"mediaTypes", "omitempty">>, TRUE, FALSE, GoSlice("concrete", <<>>, TRUE)),
          MkField(<<"tags">>, TRUE, FALSE,
                  GoSlice("interface", <<GoString("a"), GoString("b")>>, FALSE)),
          MkField(<<"ids">>, TRUE, FALSE,
                  GoPtr(GoSlice("concrete", <<GoInt(7), GoInt(8)>>, FALSE)))}
    \cup {MkField(<<"m">>, TRUE, FALSE, GoMap(e, es, FALSE)) :
            e \in {"concrete", "interface"},
            es \in {<<MkEntry("x", GoInt(1))>>, <<MkEntry("x", GoString(""))>>,
                    <<MkEntry("x", GoString("1")), MkEntry("y", GoNilPtr("string"))>>}}
    \cup {MkField(<<"m">>, TRUE, FALSE, GoMap("interface", <<MkEntry("x", GoNil)>>, FALSE)),
          MkField(<<"m">>, TRUE, FALSE, GoMap("concrete", <<>>, TRUE))}
    \cup {MkField(<<"limit", "omitempty">>, TRUE, FALSE, v) :
            v \in {GoNilPtr("int"), GoPtr(GoInt(0)), GoPtr(GoInt(25)), GoInt(5)}}
    \cup {MkField(<<"query">>, TRUE, FALSE, v) : v \in {GoString(""), GoString("hello")}}
    \cup {MkField(<<"since">>, TRUE, FALSE, v) :
            v \in {GoTime(Time1.str), GoPtr(GoTime(Time1.str)), GoNilPtr("time")}}
    \cup {MkField(<<"any">>, TRUE, TRUE, v) : v \in {GoString("v"), GoNil, GoNilPtr("time")}}
    \cup {MkField(<<"hidden">>, FALSE, FALSE, GoString("secret")),
          MkField(<<"-">>, TRUE, FALSE, GoString("skipped")),
          MkField(<<>>, TRUE, FALSE, GoString("untagged"))}

\* everything StructToQueryParams is handed
EncoderInputs ==
    QueryMaps
    \cup {GoMap("concrete", es, FALSE) :
            es \in {<<MkEntry("query", GoString("alice"))>>,
                    <<MkEntry("query", GoString("")), MkEntry("limit", GoNilPtr("string"))>>}}
    \cup {GoStruct(fs) : fs \in SeqsUpTo(Fields, MaxEntries)}
    \cup {GoPtr(GoStruct(<<f>>)) : f \in Fields}
    \cup {GoNil, GoNilPtr("struct"), GoInt(5)}

InitQuery ==
    /\ maxRetries = DefaultMaxRetries
    /\ PipelineIdle
    /\ DelayIdle
    /\ ErrorIdle
    /\ NewIdle
    /\ IterIdle
    /\ WebIdle
    /\ qIn \in {<<x>> : x \in EncoderInputs \cup SearchInputs}
    /\ qOp = "none"
    /\ qOut = <<>>

\* BuildQuery(params)
BuildQuery ==
    /\ qOp = "none"
    /\ qIn[1] \in EncoderInputs
    /\ qOp' = "BuildQuery"
    /\ qOut' = <<MkSent("", StructToQueryParams(qIn[1]), "BuildQuery")>>
    /\ UNCHANGED qIn
    /\ UNCHANGED notQueryVars

\* c.DoRequestWithQuery(ctx, "GET", "/v0/search-users", query, &result)
CallDoRequestWithQuery ==
    /\ qOp = "none"
    /\ qIn[1] \in QueryMaps
    /\ qOp' = "DoRequestWithQuery"
    /\ qOut' = <<DoRequestWithQuery("/v0/search-users", qIn[1])>>
    /\ UNCHANGED qIn
    /\ UNCHANGED notQueryVars

\* m.Search(ctx, params)
CallMessagesSearch ==
    /\ qOp = "none"
    /\ qIn[1] \in SearchInputs
    /\ qOp' = "MessagesSearch"
    /\ qOut' = <<MessagesSearch(qIn[1])>>
    /\ UNCHANGED qIn
    /\ UNCHANGED notQueryVars

NextQuery == BuildQuery \/ CallDoRequestWithQuery \/ CallMessagesSearch

SpecQuery == InitQuery /\ [][NextQuery]_vars

-----------------------------------------------------------------------------
(* Requests on one client, from several goroutines *)

\* request paths, as sequences of characters like the base URLs
Paths == {<<"test">>, <<"/", "test">>}

\* strings.TrimPrefix(path, "/")
TrimPrefixSlash(path) ==
    IF Len(path) > 0 /\ path[1] = "/" THEN Tail(path) ELSE path

\* doRequestOnce: url := c.baseURL + strings.TrimPrefix(path, "/")
requestURL(c, path) == c.baseURL \o TrimPrefixSlash(path)

\* the query maps the callers pass: nil, and one whose value is a time.Time
ClientQueries ==
    {GoMap("interface", <<>>, TRUE),
     GoMap("interface", <<MkEntry("since", GoTime(Time1.str))>>, FALSE)}

\* DoRequestWithQuery: path += "?" + queryValues.Encode(), the encoded query
\* being one run of characters
pathWithQuery(path, query) ==
    IF DoRequestWithQuery("", query).hasQuery THEN path \o <<"?", "since=Time1">> ELSE path

\* what the server or the transport gives the attempts of these calls
ClientOutcomes ==
    {MkOutcome("transportError", 0, "", "connection refused"),
     MkOutcome("response", 200, BodySuccess, ""),
     MkOutcome("response", 429, BodyTestError, "")}

\* a request that decrements the client's retry budget
requestWritesBudget(c) ==
    [c EXCEPT !.maxRetries = @ - 1, !.retryLogic.maxRetries = @ - 1]

\* The client after DoRequest, Do and doRequestOnce have run on it: they read
\* c.baseURL, c.accessToken, c.userAgent, c.httpClient and c.retryLogic and
\* assign to no field of c or of the retry engine.
requestWrites(c) == c

\* DoRequest / DoRequestWithQuery is called by caller r: Do is entered and its
\* loop condition is evaluated for attempt = 0.
ClientDoRequest(r, op, path, query) ==
    /\ newPc = "returned"
    /\ client # <<>>
    /\ inflight[r].pc = "idle"
    /\ LET c == client[1]
           p == IF op = "DoRequestWithQuery" THEN pathWithQuery(path, query) ELSE path
           entered == [IdleRequest EXCEPT !.op = op, !.path = p]
       IN  inflight' =
             [inflight EXCEPT ![r] =
                IF 0 <= c.retryLogic.maxRetries
                THEN [entered EXCEPT !.pc = "loop"]
                ELSE [entered EXCEPT !.pc = "returned", !.retTag = "exhausted",
                                     !.retCount = c.retryLogic.maxRetries + 1]]
    /\ client' = <<requestWrites(client[1])>>
    /\ UNCHANGED <<envToken, envBaseURL, optsGiven, optIdx, config, newPc, built, newErr>>
    /\ UNCHANGED notNewVars

\* One iteration of Do's loop for caller r, the context staying active: fn(),
\* that is doRequestOnce with a GET and a result to decode into, the decision
\* on its error, the backoff wait, attempt++ and the loop condition.
ClientDoIteration(r, outcome) ==
    /\ client # <<>>
    /\ inflight[r].pc = "loop"
    /\ LET c == client[1]
           q == inflight[r]
           once == doRequestOnce("noBody", outcome, TRUE, q.result)
           tried == [q EXCEPT !.url = requestURL(c, q.path),
                              !.calls = @ + 1,
                              !.outcomes = Append(@, outcome),
                              !.result = once.result]
           failed == [tried EXCEPT !.lastErr = once.err]
       IN  inflight' =
             [inflight EXCEPT ![r] =
                IF once.err = NoError
                THEN [tried EXCEPT !.pc = "returned", !.retTag = "nil"]
                ELSE IF ~isRetryableError(once.err)
                THEN [failed EXCEPT !.pc = "returned", !.retTag = "err",
                                    !.retErr = once.err]
                ELSE IF q.attempt < c.retryLogic.maxRetries
                THEN [failed EXCEPT !.attempt = @ + 1]
                ELSE [failed EXCEPT !.attempt = @ + 1, !.pc = "returned",
                                    !.retTag = "exhausted", !.retErr = once.err,
                                    !.retCount = c.retryLogic.maxRetries + 1]]
    /\ client' = <<requestWrites(client[1])>>
    /\ UNCHANGED <<envToken, envBaseURL, optsGiven, optIdx, config, newPc, built, newErr>>
    /\ UNCHANGED notNewVars

NextClient ==
    \/ NextNew
    \/ \E r \in Callers, op \in {"DoRequest", "DoRequestWithQuery"}, path \in Paths,
          query \in ClientQueries : ClientDoRequest(r, op, path, query)
    \/ \E r \in Callers, outcome \in ClientOutcomes : ClientDoIteration(r, outcome)

SpecClient == InitNew /\ [][NextClient]_vars

(***************************************************************************)
(* The web front end's session registry (cmd/webchat)                      *)
(***************************************************************************)

\* most requests the web front end is sent in one run
MaxRequests == 4

\* Session ids are numbered in the order generateSessionID hands them out; 0 is
\* a request without the session_id cookie, and ForgedID a cookie value that
\* the server never issued.
NoCookie == 0
ForgedID == MaxRequests + 1

\* generateSessionID: 16 bytes of crypto/rand, hex encoded, so the n-th id
\* differs from every earlier one
generateSessionID(n) == n

\* a lock that every reader may take at any moment
canRLockAlways(w) == TRUE

\* sync.RWMutex.RLock returns once no writer holds the lock
canRLock(w) == w.writer = 0

\* sync.RWMutex.Lock returns once no writer and no reader holds the lock
canLock(w) == w.writer = 0 /\ w.readers = {}

\* a login that registers whatever Token.Info answered
loginOutcomeUnvalidated(token, infoOK) ==
    IF token = "" THEN 400 ELSE 200

\* /api/login after the payload was decoded: the status it answers before it
\* touches the store; 200 stands for going on to store.set
loginOutcome(token, infoOK) ==
    IF token = "" THEN 400
    ELSE IF tokenMissing(applyOption(MkOption("WithAccessToken", token, 0, <<>>),
                                     DefaultConfig("", <<>>))) THEN 401
    ELSE IF ~infoOK THEN 401
    ELSE 200

\* s.sessions[id] = data
mapSet(m, id, data) == [i \in DOMAIN m \cup {id} |-> IF i = id THEN data ELSE m[i]]

\* delete(s.sessions, id)
mapDelete(m, id) == [i \in DOMAIN m \ {id} |-> m[i]]

\* the handler goroutine x is free to serve the next request
CanServe(x) ==
    /\ web.h[x].pc \in {"idle", "done"}
    /\ web.started < MaxRequests

\* the handler x answers at once, without touching the store
Answer(x, kind, id, status) ==
    [web EXCEPT !.started = @ + 1,
                !.h[x] = [IdleHandler EXCEPT !.pc = "done", !.kind = kind, !.id = id,
                                              !.status = status,
                                              !.late = id \in web.loggedOut]]

\* the handler x goes on to the store operation op on id
Enter(x, kind, op, id) ==
    [web EXCEPT !.started = @ + 1,
                !.h[x] = [IdleHandler EXCEPT !.pc = IF op = "get" THEN "rlock" ELSE "lock",
                                              !.kind = kind, !.op = op, !.id = id,
                                              !.late = id \in web.loggedOut]]

\* POST /api/login with a decoded payload: the token is trimmed and must not
\* be empty, New and Token.Info must succeed, and only then a session id is
\* generated and store.set is called.
WebLogin(x, token, infoOK) ==
    /\ CanServe(x)
    /\ LET status == loginOutcome(token, infoOK)
           next == IF status # 200
                   THEN Answer(x, "login", NoCookie, status)
                   ELSE Enter(x, "login", "set", generateSessionID(web.generated + 1))
       IN  web' = [next EXCEPT !.generated = IF status = 200 THEN @ + 1 ELSE @,
                               !.h[x].token = token,
                               !.h[x].info = infoOK]
    /\ UNCHANGED notWebVars

\* POST /api/logout: with a session cookie store.delete is called and the
\* cookie cleared; the answer is 200 either way.
WebLogout(x, cookie) ==
    /\ CanServe(x)
    /\ web' = IF cookie = NoCookie
              THEN Answer(x, "logout", NoCookie, 200)
              ELSE Enter(x, "logout", "delete", cookie)
    /\ UNCHANGED notWebVars

\* an authenticated endpoint (/api/chats, ...) enters mustSession and
\* fetchSession: without a cookie it answers 401, with one it calls store.get.
WebAuth(x, cookie) ==
    /\ CanServe(x)
    /\ web' = IF cookie = NoCookie
              THEN Answer(x, "auth", NoCookie, 401)
              ELSE Enter(x, "auth", "get", cookie)
    /\ UNCHANGED notWebVars

\* set, delete: s.mu.Lock()
StoreLock(x) ==
    /\ web.h[x].pc = "lock"
    /\ canLock(web)
    /\ web' = [web EXCEPT !.writer = x, !.h[x].pc = "write"]
    /\ UNCHANGED notWebVars

\* set, delete: the map assignment or delete begins; until it is finished the
\* map's buckets are in no state a reader may rely on
StoreWrite(x) ==
    /\ web.h[x].pc = "write"
    /\ web' = [web EXCEPT !.torn = TRUE, !.h[x].pc = "writing"]
    /\ UNCHANGED notWebVars

\* set, delete: the map assignment or delete is finished; login stores
\* &sessionData{Client: client, UserInfo: info}
StoreWritten(x) ==
    /\ web.h[x].pc = "writing"
    /\ LET hx == web.h[x]
       IN  web' = [web EXCEPT
                     !.sessions = IF hx.op = "set"
                                  THEN mapSet(@, hx.id, [Client |-> hx.token, UserInfo |-> hx.info])
                                  ELSE mapDelete(@, hx.id),
                     !.torn = FALSE,
                     !.ops = Append(@, [op |-> hx.op, id |-> hx.id, found |-> FALSE]),
                     !.h[x].pc = "unlock"]
    /\ UNCHANGED notWebVars

\* set, delete: s.mu.Unlock(), and the rest of the handler: login sets the
\* cookie and answers 200, logout clears the cookie and answers 200,
\* mustSession answers 401.
StoreUnlock(x) ==
    /\ web.h[x].pc = "unlock"
    /\ LET hx == web.h[x]
       IN  web' = [web EXCEPT
                     !.writer = 0,
                     !.issued = IF hx.kind = "login" THEN @ \cup {hx.id} ELSE @,
                     !.loggedOut = IF hx.kind = "logout" THEN @ \cup {hx.id} ELSE @,
                     !.h[x].pc = "done",
                     !.h[x].op = "none",
                     !.h[x].status = IF hx.kind = "auth" THEN 401 ELSE 200,
                     !.h[x].cookie = CASE hx.kind = "login" -> <<hx.id>>
                                       [] hx.kind = "logout" -> <<NoCookie>>
                                       [] OTHER -> <<>>]
    /\ UNCHANGED notWebVars

\* get: s.mu.RLock()
StoreRLock(x) ==
    /\ web.h[x].pc = "rlock"
    /\ canRLock(web)
    /\ web' = [web EXCEPT !.readers = @ \cup {x}, !.h[x].pc = "read"]
    /\ UNCHANGED notWebVars

\* get: data, ok := s.sessions[id]; a read that races with a write of the
\* map may find anything
StoreRead(x) ==
    /\ web.h[x].pc = "read"
    /\ \E ok \in BOOLEAN :
        /\ web.torn \/ ok = (web.h[x].id \in DOMAIN web.sessions)
        /\ web' = [web EXCEPT
                     !.ops = Append(@, [op |-> "get", id |-> web.h[x].id, found |-> ok]),
                     !.h[x].found = ok,
                     !.h[x].pc = "runlock"]
    /\ UNCHANGED notWebVars

\* get: s.mu.RUnlock(), and the rest of mustSession: a session that was found
\* lets the endpoint go on, one that was not is deleted from the store before
\* the 401.
StoreRUnlock(x) ==
    /\ web.h[x].pc = "runlock"
    /\ web' = IF web.h[x].found
              THEN [web EXCEPT !.readers = @ \ {x}, !.h[x].pc = "done",
                               !.h[x].op = "none", !.h[x].status = 200]
              ELSE [web EXCEPT !.readers = @ \ {x}, !.h[x].pc = "lock",
                               !.h[x].op = "delete"]
    /\ UNCHANGED notWebVars

\* the cookies a browser may send: none, one the server issued, a forged one
Cookies == {NoCookie, ForgedID} \cup web.issued

InitWeb ==
    /\ maxRetries = DefaultMaxRetries
    /\ PipelineIdle
    /\ DelayIdle
    /\ ErrorIdle
    /\ NewIdle
    /\ IterIdle
    /\ QueryIdle
    /\ web = NoWeb

NextWeb ==
    \E x \in Handlers :
        \/ \E token \in Tokens, infoOK \in BOOLEAN : WebLogin(x, token, infoOK)
        \/ \E cookie \in Cookies : WebLogout(x, cookie)
        \/ \E cookie \in Cookies : WebAuth(x, cookie)
        \/ StoreLock(x)
        \/ StoreWrite(x)
        \/ StoreWritten(x)
        \/ StoreUnlock(x)
        \/ StoreRLock(x)
        \/ StoreRead(x)
        \/ StoreRUnlock(x)

SpecWeb == InitWeb /\ [][NextWeb]_vars

-----------------------------------------------------------------------------
(* Properties *)

\* the error the i-th HTTP attempt of the current DoRequest produced
AttemptError(i) == doRequestOnce(reqKind, outcomes[i], hasResult, NoResult).err

\* the error the first call of fn produced (NoError when it succeeded)
FirstError ==
    IF SendsRequest(reqKind)
    THEN AttemptError(1)
    ELSE doRequestOnce(reqKind, MkOutcome("response", 200, BodySuccess, ""),
                       hasResult, NoResult).err

\* The retryable column of the error table: connection errors, 409 Conflict,
\* 429 RateLimit, 5xx InternalServerError, the generic error of status 408.
RetryableByTable(err) ==
    \/ err.type \in {"APIConnectionError", "APIConnectionTimeoutError"}
    \/ err.type = "ConflictError" /\ err.Status = 409
    \/ err.type = "RateLimitError" /\ err.Status = 429
    \/ err.type = "InternalServerError" /\ err.Status >= 500
    \/ err.type = "APIError" /\ err.Status = 408

\* The kind column of the error table, for the statuses it names.
KindByTable ==
    {<<400, "BadRequestError">>, <<401, "AuthenticationError">>,
     <<403, "PermissionDeniedError">>, <<404, "NotFoundError">>,
     <<409, "ConflictError">>, <<422, "UnprocessableEntityError">>,
     <<429, "RateLimitError">>}

\* C1: Do, with a context that is never cancelled and an operation that fails
\* on every call with an error the table marks retryable, calls the operation
\* exactly maxRetries + 1 times and returns the "failed after N attempts" error
\* with N = maxRetries + 1, wrapping the last operation error.
C1_RetryableFailuresExhaustAttempts ==
    ( /\ pc = "returned"
      /\ ctx = "active"
      /\ SendsRequest(reqKind)
      /\ \A i \in 1 .. Len(outcomes) : RetryableByTable(AttemptError(i)) )
    => /\ calls = maxRetries + 1
       /\ retTag = "exhausted"
       /\ retCount = maxRetries + 1
       /\ retErr = lastErr
       /\ (calls > 0 => retErr = AttemptError(calls))

\* C2: with maxRetries = 1, a server answering 429 and then 200 with a
\* decodable body, DoRequest makes exactly 2 HTTP attempts and returns nil
\* with the result decoded from the second response.
C2_RateLimitThenSuccess ==
    ( /\ pc = "returned"
      /\ maxRetries = 1
      /\ ctx = "active"
      /\ SendsRequest(reqKind)
      /\ hasResult
      /\ Len(outcomes) >= 1
      /\ outcomes[1].kind = "response" /\ outcomes[1].status = 429
      /\ (Len(outcomes) >= 2 =>
            /\ outcomes[2].kind = "response" /\ outcomes[2].status = 200
            /\ UnmarshalResult(outcomes[2].body).ok) )
    => /\ Len(outcomes) = 2
       /\ calls = 2
       /\ retTag = "nil"
       /\ result = UnmarshalResult(outcomes[2].body).value

\* C3: the retry engine's decision agrees with IsRetryableError: while attempts
\* remain an error is surfaced at once only if the policy says it is not
\* retryable, and the loop goes on to another attempt only after an error the
\* policy says is retryable.
C3_EngineAgreesWithPolicy ==
    /\ (pc = "returned" /\ retTag = "err" /\ attempt < maxRetries
            => ~IsRetryableError(retErr))
    /\ (pc = "loop" /\ calls > 0 => IsRetryableError(lastErr))

\* the errors C4 calls non-retryable
NonRetryableKinds ==
    {"BadRequestError", "AuthenticationError", "PermissionDeniedError",
     "NotFoundError", "UnprocessableEntityError", "wrapError"}

\* C4: when the first call of the operation fails with a non-retryable error
\* (BadRequest, Authentication, PermissionDenied, NotFound,
\* UnprocessableEntity, or a decode/serialization error), Do has called the
\* operation exactly once, has waited for no backoff, and has returned that
\* very error, not wrapped.
C4_NonRetryableReturnedAtOnce ==
    (calls >= 1 /\ FirstError.type \in NonRetryableKinds)
    => /\ pc = "returned"
       /\ calls = 1
       /\ delays = <<>>
       /\ retTag = "err"
       /\ retErr = FirstError

\* C4's case: a 404 surfaced after one call although retries were allowed
C4_Witness ==
    /\ maxRetries >= 1
    /\ pc = "returned"
    /\ calls = 1
    /\ retTag = "err"
    /\ retErr.type = "NotFoundError"
    /\ FirstError = retErr

\* C5: when the context is already cancelled on entry, Do returns the
\* context's error and has called the operation zero times.
C5_CancelledBeforeFirstAttempt ==
    (pc = "returned" /\ ctxDoneAtEntry)
    => /\ retTag = "ctx"
       /\ retErr = CtxErr(ctx)
       /\ calls = 0

\* the delays C6 lists for attempt indices 0..6
DelayTable == <<250, 500, 1000, 2000, 4000, 8000, 10000>>

\* C6: calculateDelay(i) is min(250 ms * 2^i, 10000 ms): the listed values
\* for i = 0..6 and the 10000 ms cap for every larger i.
C6_DelayIsCappedExponential ==
    delayOut # <<>>
    => delayOut[1] = (IF delayArg < Len(DelayTable)
                      THEN DelayTable[delayArg + 1] ELSE maxDelay)

\* C7: handleErrorResponse gives every status the kind of the table, status
\* >= 500 InternalServerError, any other status the generic APIError, and the
\* Status field is the response status.
C7_ClassifierFollowsTable ==
    (errIn # <<>> /\ errOut # NoError)
    => /\ errOut.Status = errIn[1]
       /\ \A row \in KindByTable : errIn[1] = row[1] => errOut.type = row[2]
       /\ ( errIn[1] \notin {row[1] : row \in KindByTable}
            => errOut.type = (IF errIn[1] >= 500 THEN "InternalServerError"
                              ELSE "APIError") )

\* C7's case: a 422 response has been classified
C7_Witness ==
    /\ errIn # <<>>
    /\ errIn[1] = 422
    /\ errOut.type = "UnprocessableEntityError"

\* C8: IsRetryableError is true exactly for ConnectionError,
\* ConnectionTimeout, Conflict, RateLimit, InternalServerError and the generic
\* APIError of status 408 or >= 500, and false for everything else.
C8_RetryablePolicy ==
    retryableOut # "none"
    => ( retryableOut = "yes"
         <=> \/ errOut.type \in {"APIConnectionError", "APIConnectionTimeoutError",
                                 "ConflictError", "RateLimitError",
                                 "InternalServerError"}
             \/ /\ errOut.type = "APIError"
                /\ (errOut.Status = 408 \/ errOut.Status >= 500) )

\* C8's case: the generic error of status 408 has been found retryable
C8_Witness ==
    /\ retryableOut = "yes"
    /\ errOut.type = "APIError"
    /\ errOut.Status = 408

\* C9: against a server answering 404 with {"error":"not found","code":
\* "NOT_FOUND"}, DoRequest makes exactly one HTTP attempt, for any maxRetries,
\* and returns a NotFoundError with Status 404, Message "not found" and Code
\* "NOT_FOUND".
C9_NotFoundEndToEnd ==
    ( /\ pc = "returned"
      /\ ctx = "active"
      /\ SendsRequest(reqKind)
      /\ \A i \in 1 .. Len(outcomes) :
            outcomes[i] = MkOutcome("response", 404, BodyNotFound, "") )
    => /\ Len(outcomes) = 1
       /\ retTag = "err"
       /\ retErr.type = "NotFoundError"
       /\ retErr.Status = 404
       /\ retErr.Message = "not found"
       /\ retErr.Code = "NOT_FOUND"

\* the statuses C10 names
TestedStatuses == {400, 401, 403, 404, 409, 422, 429, 500}

\* C10: when DoRequest fails because its final attempt received one of the
\* statuses 400, 401, 403, 404, 409, 422, 429, 500, the value it returns is
\* itself of the kind of that status (not a wrapper), for every maxRetries >= 0.
C10_ReturnedErrorHasKind ==
    ( /\ pc = "returned"
      /\ maxRetries >= 0
      /\ retTag \in {"err", "exhausted"}
      /\ Len(outcomes) >= 1
      /\ outcomes[Len(outcomes)].kind = "response"
      /\ outcomes[Len(outcomes)].status \in TestedStatuses )
    => /\ retTag = "err"
       /\ retErr.Status = outcomes[Len(outcomes)].status
       /\ \A row \in KindByTable \cup {<<500, "InternalServerError">>} :
            retErr.Status = row[1] => retErr.type = row[2]

\* C10's case: a 429 came back as a RateLimitError although retries were allowed
C10_Witness ==
    /\ pc = "returned"
    /\ maxRetries >= 1
    /\ retTag = "err"
    /\ Len(outcomes) = 1
    /\ outcomes[1].status = 429
    /\ retErr.type = "RateLimitError"

RECURSIVE LastToken(_, _)
\* the token New must end with: the last WithAccessToken of the first n
\* options, else the environment's
LastToken(opts, n) ==
    IF n = 0 THEN envToken
    ELSE IF opts[n].name = "WithAccessToken" THEN opts[n].str
    ELSE LastToken(opts, n - 1)

FinalToken == LastToken(optsGiven, Len(optsGiven))

\* C11: New fails with an Authentication error of status 401 and no client
\* whenever the token is empty after the environment default and all options
\* in call order, before an HTTP client, retry engine or resource handle is
\* constructed and with no network activity; with a non-empty final token New
\* succeeds and the client stores exactly that token.
C11_NewRequiresToken ==
    /\ FinalToken = "" =>
         /\ built = {}
         /\ client = <<>>
         /\ calls = 0
         /\ newPc # "construct"
         /\ newPc = "returned" =>
              /\ newErr.type = "AuthenticationError"
              /\ newErr.Status = 401
    /\ (FinalToken # "" /\ newPc = "returned") =>
         /\ newErr = NoError
         /\ Len(client) = 1
         /\ client[1].accessToken = FinalToken

\* C11's case: the environment had a token, an option emptied it, New failed
C11_Witness ==
    /\ newPc = "returned"
    /\ envToken # ""
    /\ Len(optsGiven) = MaxOptions
    /\ FinalToken = ""
    /\ newErr.type = "AuthenticationError"

RECURSIVE ConcatItems(_)
\* the items of the pages ps, page after page
ConcatItems(ps) ==
    IF ps = <<>> THEN <<>>
    ELSE ConcatItems(SubSeq(ps, 1, Len(ps) - 1)) \o ps[Len(ps)].items

\* the server has answered with exactly n non-empty pages, the first n-1 with
\* has_more = true and pairwise distinct cursors, the last with has_more = false
ServedPages(n) ==
    /\ Len(pages) = n
    /\ \A i \in 1 .. n :
         /\ pages[i].kind = "page"
         /\ Len(pages[i].items) >= 1
         /\ pages[i].pagination # <<>>
         /\ pages[i].pagination[1].HasMore = (i < n)
    /\ \A i, j \in 1 .. n - 1 :
         i # j => pages[i].pagination[1].Cursor # pages[j].pagination[1].Cursor

\* the last call was a ToSlice on a fresh iterator, and it has returned
FreshToSliceReturned ==
    /\ itPc = "ready"
    /\ lastCall.op = "ToSlice"
    /\ sliceStart = 0

\* C12: over a server that returns n >= 1 non-empty pages, the first n-1 with
\* has_more = true and pairwise distinct cursors and the last with
\* has_more = false, ToSlice on a fresh iterator returns the concatenation of
\* all pages' items in server order, and exactly n network calls occur.
C12_ToSliceConcatenatesPages ==
    \A n \in 1 .. MaxFetches :
        (ServedPages(n) /\ FreshToSliceReturned)
        => /\ lastCall.err = NoError
           /\ lastCall.items = ConcatItems(pages)
           /\ fetches = n
           /\ Len(requests) = n

\* C12's stated case: three pages, the first of two items
C12_Witness ==
    /\ ServedPages(3)
    /\ FreshToSliceReturned
    /\ Len(pages[1].items) = 2
    /\ Len(lastCall.items) >= 4

\* C13: when the first fetched page carries items but no pagination object,
\* HasNext is true while items of that page remain and false once Next has
\* returned them all, and exactly one network call is made in total whatever
\* Next, HasNext and ToSlice calls follow.
C13_NoPaginationMeansLastPage ==
    ( /\ Len(pages) >= 1
      /\ pages[1].kind = "page"
      /\ Len(pages[1].items) >= 1
      /\ pages[1].pagination = <<>> )
    => /\ fetches = 1
       /\ Len(pages) = 1
       /\ HasNext(it) <=> (Len(yielded) < Len(pages[1].items))
       /\ yielded = SubSeq(pages[1].items, 1, Len(yielded))
       /\ (itPc = "ready" /\ lastCall.op = "HasNext")
          => (lastCall.bool <=> (Len(yielded) < Len(pages[1].items)))

\* C13's case: the page is used up, ToSlice was called again and HasNext after it
C13_Witness ==
    /\ Len(pages) = 1
    /\ pages[1].kind = "page"
    /\ Len(pages[1].items) = 2
    /\ pages[1].pagination = <<>>
    /\ Len(yielded) = 2
    /\ sliceStart = 1
    /\ lastCall.op = "HasNext"
    /\ ~lastCall.bool

\* C14: HasNext returns true exactly when the buffer index is below the buffer
\* length or the more-pages flag is set; it is true on a fresh iterator before
\* any network call; and a HasNext call performs no network call and leaves
\* the iterator as it was.
C14_HasNextIsPure ==
    /\ [](fetches = 0 /\ itPc # "idle" => HasNext(it))
    /\ [][ (lastCall' # lastCall /\ lastCall'.op = "HasNext")
           => /\ lastCall'.bool <=> (it.currentIdx < Len(it.currentPage) \/ it.hasMore)
              /\ it' = it
              /\ fetches' = fetches
              /\ requests' = requests ]_vars

\* C14's case: HasNext answered true on a fresh iterator
C14_Witness ==
    /\ itPc = "ready"
    /\ fetches = 0
    /\ lastCall.op = "HasNext"
    /\ lastCall.bool

\* C15: when a page fetch fails during ToSlice, on the first page or on a
\* later one after items were collected, ToSlice returns the error and no
\* items: what it had collected is not returned.
C15_ToSliceFailureReturnsNothing ==
    /\ (lastCall.op = "ToSlice" /\ lastCall.err # NoError) => lastCall.items = <<>>
    /\ ( /\ itPc = "ready"
         /\ lastCall.op = "ToSlice"
         /\ lastCall.fetched >= 1
         /\ pages[Len(pages)].kind = "error" )
       => /\ lastCall.err.type = "wrapError"
          /\ lastCall.err.Cause = pages[Len(pages)].err.type
          /\ lastCall.items = <<>>

\* C15's case: the second page failed after the first one's items were collected
C15_Witness ==
    /\ itPc = "ready"
    /\ lastCall.op = "ToSlice"
    /\ lastCall.err # NoError
    /\ Len(lastCall.collected) = 2
    /\ Len(pages) = 2
    /\ pages[2].kind = "error"

\* the bodies json.Unmarshal cannot decode into the result target
UndecodableBodies == {BodyText, BodyEmpty}

\* attempt i received a status below 400 with a body the result target cannot hold
DecodeFailedAt(i) ==
    /\ SendsRequest(reqKind)
    /\ hasResult
    /\ i <= Len(outcomes)
    /\ outcomes[i].kind = "response"
    /\ outcomes[i].status < 400
    /\ outcomes[i].body \in UndecodableBodies

\* C16: when an attempt receives a status below 400 whose body cannot be
\* decoded into the result target, DoRequest makes no further attempt, whatever
\* maxRetries is, and returns a decode error that is neither an API error nor
\* retryable.
C16_DecodeFailureIsFinal ==
    \A i \in 1 .. MaxRetriesBound + 1 :
        DecodeFailedAt(i)
        => /\ pc = "returned"
           /\ Len(outcomes) = i
           /\ calls = i
           /\ delays = <<>>
           /\ retTag = "err"
           /\ retErr.type = "wrapError"
           /\ retErr.Message = "failed to unmarshal response"
           /\ retErr.type \notin APIErrorTypes
           /\ ~RetryableByTable(retErr)
           /\ ~IsRetryableError(retErr)

\* C16's case: a 200 with a body that is no JSON, with retries allowed
C16_Witness ==
    /\ maxRetries >= 1
    /\ DecodeFailedAt(1)
    /\ outcomes[1].status = 200
    /\ outcomes[1].body = BodyText
    /\ pc = "returned"
    /\ retErr.type = "wrapError"

\* the text a non-empty string, an integer or a boolean is written as
NaturalText(v) ==
    CASE v.kind = "string" -> v.str
      [] v.kind = "bool" -> IF v.bool THEN "true" ELSE "false"
      [] v.kind = "int" /\ v.num = 25 -> "25"
      [] v.kind = "int" /\ v.num = 0 -> "0"
      [] v.kind = "int" /\ v.num = -3 -> "-3"
      [] v.kind = "int" /\ v.num = 1 -> "1"
      [] v.kind = "int" /\ v.num = 2 -> "2"
      [] v.kind = "int" /\ v.num = 7 -> "7"
      [] v.kind = "int" /\ v.num = 8 -> "8"

\* a non-empty string, an integer or a boolean
IsPlainScalar(v) ==
    \/ v.kind = "string" /\ v.str # ""
    \/ v.kind \in {"int", "bool"}

\* a flat mapping of names to non-empty strings, integers or booleans
IsFlatMap(m) ==
    /\ m.kind = "map"
    /\ ~m.bool
    /\ \A i \in 1 .. Len(m.elems) : IsPlainScalar(m.elems[i].val)

\* the values a url.Values holds under key, the empty list when it has none
ValuesOf(values, key) == IF key \in DOMAIN values THEN values[key] ELSE <<>>

\* C17: DoRequestWithQuery, given a flat mapping whose values are non-empty
\* strings, integers or booleans, sends a request whose URL query holds
\* name=value for every entry of the mapping, and sends no request body.
C17_FlatMapReachesQuery ==
    (qOp = "DoRequestWithQuery" /\ IsFlatMap(qIn[1]))
    => /\ ~qOut[1].hasBody
       /\ \A i \in 1 .. Len(qIn[1].elems) :
            ValuesOf(qOut[1].query, qIn[1].elems[i].key)
                = <<NaturalText(qIn[1].elems[i].val)>>

\* the list parameters of Messages.Search: query name and field
ListParams ==
    {<<"accountIDs", "AccountIDs">>, <<"chatIDs", "ChatIDs">>,
     <<"mediaTypes", "MediaTypes">>, <<"senderIDs", "SenderIDs">>}

\* its scalar optional parameters
ScalarParams ==
    {<<"chatType", "ChatType">>, <<"cursor", "Cursor">>, <<"dateAfter", "DateAfter">>,
     <<"dateBefore", "DateBefore">>, <<"direction", "Direction">>,
     <<"excludeLowPriority", "ExcludeLowPriority">>, <<"includeMuted", "IncludeMuted">>,
     <<"limit", "Limit">>, <<"query", "Query">>}

\* name[k] for k = 0..9
IndexedKey(name, k) == name \o "[" \o Digits[k + 1] \o "]"

\* C18: Messages.Search puts element k of every list parameter (accountIDs,
\* chatIDs, mediaTypes, senderIDs) under the key name[k], k counting from 0 in
\* list order; an empty or nil list contributes no key; a scalar optional
\* parameter appears under its plain name exactly when it is set.
C18_SearchUsesIndexedBrackets ==
    qOp = "MessagesSearch"
    => LET p == qIn[1]
           q == qOut[1].query
       IN  /\ \A lp \in ListParams :
                \A k \in 0 .. Len(p[lp[2]]) - 1 :
                    ValuesOf(q, IndexedKey(lp[1], k)) = <<p[lp[2]][k + 1]>>
           /\ \A sp \in ScalarParams : sp[1] \in DOMAIN q <=> p[sp[2]] # <<>>
           /\ DOMAIN q =
                UNION {{IndexedKey(lp[1], k) : k \in 0 .. Len(p[lp[2]]) - 1} :
                         lp \in ListParams}
                \cup {sp[1] : sp \in {x \in ScalarParams : p[x[2]] # <<>>}}
           /\ p.Limit # <<>> => q["limit"] = <<NaturalText(GoInt(p.Limit[1]))>>
           /\ p.IncludeMuted # <<>> => q["includeMuted"] = <<"true">>
           /\ qOut[1].hasQuery <=> DOMAIN q # {}
           /\ ~qOut[1].hasBody

\* C18's case: two account IDs and three media types, no chat ID, a limit
C18_Witness ==
    /\ qOp = "MessagesSearch"
    /\ Len(qIn[1].AccountIDs) = 2
    /\ Len(qIn[1].MediaTypes) = 3
    /\ qIn[1].ChatIDs = <<>>
    /\ qIn[1].Limit = <<25>>
    /\ qIn[1].Query = <<>>
    /\ ValuesOf(qOut[1].query, "accountIDs[1]") = <<"account-2">>
    /\ ValuesOf(qOut[1].query, "mediaTypes[2]") = <<"audio">>

\* the struct StructToQueryParams was handed, behind a pointer or not
InputStruct ==
    IF qIn[1].kind = "ptr" /\ qIn[1].elems # <<>> THEN qIn[1].elems[1] ELSE qIn[1]

\* a field the encoder is to render: exported, with a json name
IsNamedField(f) == f.exported /\ f.tag # <<>> /\ f.tag # <<"-">> /\ ~f.iface

\* the value of a field, behind a pointer or not
FieldValue(f) ==
    IF f.val.kind = "ptr" /\ f.val.elems # <<>> THEN f.val.elems[1] ELSE f.val

RECURSIVE CommaJoined(_)
\* the texts of the elements, in order, with commas between them
CommaJoined(vs) ==
    IF Len(vs) = 1 THEN NaturalText(vs[1])
    ELSE CommaJoined(SubSeq(vs, 1, Len(vs) - 1)) \o "," \o NaturalText(vs[Len(vs)])

\* TRUE iff value is among the values held under key
HoldsUnder(values, key, value) ==
    \E i \in 1 .. Len(ValuesOf(values, key)) : ValuesOf(values, key)[i] = value

\* C19: StructToQueryParams on a structured record renders a non-empty list
\* field as one comma-joined value under a single key, keeping element order
\* ([a, b] under key field yields field=a,b), and renders a map field m
\* holding x -> 1 as the key m.x with value 1.  (Lists and maps of non-empty
\* strings, integers and booleans only.)
C19_ListsJoinedMapsDotted ==
    (qOp = "BuildQuery" /\ InputStruct.kind = "struct" /\ ~qOut[1].panic)
    => \A i \in 1 .. Len(InputStruct.elems) :
         LET f == InputStruct.elems[i]
             v == FieldValue(f)
         IN  IsNamedField(f) =>
               /\ ( /\ v.kind = "slice"
                    /\ Len(v.elems) > 0
                    /\ \A j \in 1 .. Len(v.elems) : IsPlainScalar(v.elems[j]) )
                  => HoldsUnder(qOut[1].query, f.tag[1], CommaJoined(v.elems))
               /\ v.kind = "map" =>
                    \A j \in 1 .. Len(v.elems) :
                        IsPlainScalar(v.elems[j].val)
                        => HoldsUnder(qOut[1].query, f.tag[1] \o "." \o v.elems[j].key,
                                      NaturalText(v.elems[j].val))

\* a value that is absent: a nil pointer, a nil interface, an empty or nil list
IsAbsent(v) ==
    \/ v.kind = "nil"
    \/ v.kind = "ptr" /\ v.elems = <<>>
    \/ v.kind = "slice" /\ Len(v.elems) = 0

\* the keys named by the struct fields (or map entries) es that are all absent
AbsentKeys(names, absent) ==
    {names[i] : i \in DOMAIN names} \ {names[i] : i \in {j \in DOMAIN names : ~absent[j]}}

\* C20: StructToQueryParams never emits a key for an absent value: a nil
\* pointer field, an empty or nil list and a nil map entry produce no key at
\* all, and no key is ever emitted with the empty string as its value.
C20_NoKeyForAbsentValue ==
    qOp \in {"BuildQuery", "DoRequestWithQuery"}
    => LET q == qOut[1].query
           in == InputStruct
       IN  /\ \A k \in DOMAIN q :
                /\ Len(q[k]) >= 1
                /\ \A i \in 1 .. Len(q[k]) : q[k][i] # ""
           /\ in.kind = "map" =>
                AbsentKeys([i \in 1 .. Len(in.elems) |-> in.elems[i].key],
                           [i \in 1 .. Len(in.elems) |-> IsAbsent(in.elems[i].val)])
                    \cap DOMAIN q = {}
           /\ in.kind = "struct" =>
                /\ AbsentKeys([i \in 1 .. Len(in.elems) |->
                                 IF in.elems[i].tag = <<>> THEN "" ELSE in.elems[i].tag[1]],
                              [i \in 1 .. Len(in.elems) |-> IsAbsent(in.elems[i].val)])
                       \cap DOMAIN q = {}
                /\ \A i \in 1 .. Len(in.elems) :
                     LET f == in.elems[i]
                     IN  (f.tag # <<>> /\ f.val.kind = "map" /\ Len(in.elems) = 1) =>
                            \A j \in 1 .. Len(f.val.elems) :
                               IsAbsent(f.val.elems[j].val)
                               => (f.tag[1] \o "." \o f.val.elems[j].key) \notin DOMAIN q

\* C20's case: a struct whose nil pointer field is left out next to a field
\* that is rendered
C20_Witness ==
    /\ qOp = "BuildQuery"
    /\ qIn[1].kind = "struct"
    /\ Len(qIn[1].elems) = 2
    /\ qIn[1].elems[1].tag = <<"limit", "omitempty">>
    /\ qIn[1].elems[1].val = GoNilPtr("int")
    /\ qIn[1].elems[2].tag = <<"query">>
    /\ DOMAIN qOut[1].query = {"query"}

RECURSIVE LastBaseURL(_, _)
\* the base URL New is configured with: the last WithBaseURL among the first n
\* options, else the environment's, else the default
LastBaseURL(opts, n) ==
    IF n = 0 THEN (IF envBaseURL = <<>> THEN DefaultBaseURL ELSE envBaseURL)
    ELSE IF opts[n].name = "WithBaseURL" THEN opts[n].url
    ELSE LastBaseURL(opts, n - 1)

ConfiguredBaseURL == LastBaseURL(optsGiven, Len(optsGiven))

\* u without its trailing slash, p without its leading slash, if they have one
WithoutTrailingSlash(u) ==
    IF Len(u) > 0 /\ u[Len(u)] = "/" THEN SubSeq(u, 1, Len(u) - 1) ELSE u
WithoutLeadingSlash(p) ==
    IF Len(p) > 0 /\ p[1] = "/" THEN SubSeq(p, 2, Len(p)) ELSE p

\* C21: for a base URL configured with or without a trailing slash and a
\* request path with or without one leading slash, the stored base URL is the
\* configured one with a slash added only when it was missing, normalising
\* the stored URL again changes nothing, and the URL of every attempt is the
\* base, one slash, and the path.
C21_OneSlashBetweenBaseAndPath ==
    client # <<>> =>
        LET stored == client[1].baseURL
            bare == WithoutTrailingSlash(ConfiguredBaseURL)
        IN  /\ stored = Append(bare, "/")
            /\ (ConfiguredBaseURL[Len(ConfiguredBaseURL)] = "/" => stored = ConfiguredBaseURL)
            /\ normalizeBaseURL(stored) = stored
            /\ \A r \in Callers :
                 inflight[r].calls > 0 =>
                    inflight[r].url =
                        bare \o <<"/">> \o WithoutLeadingSlash(inflight[r].path)

\* C21's case: a client built with a slash-terminated base URL by option has
\* sent one request whose path starts with a slash and one whose path does not
C21_Witness ==
    /\ client # <<>>
    /\ \E i \in 1 .. Len(optsGiven) : optsGiven[i].name = "WithBaseURL"
    /\ ConfiguredBaseURL[Len(ConfiguredBaseURL)] = "/"
    /\ inflight[1].calls > 0 /\ inflight[1].path[1] = "/"
    /\ inflight[2].calls > 0 /\ inflight[2].path[1] # "/"

\* what a call was given and what the server answered it
CallInputs(q) == <<q.op, q.path, q.outcomes>>
\* what a call has done and returned
CallOutcome(q) ==
    <<q.pc, q.url, q.calls, q.attempt, q.lastErr, q.retTag, q.retErr, q.retCount, q.result>>

\* C22: once New has returned the client, no step of any DoRequest or
\* DoRequestWithQuery call, in any interleaving of the callers and whether the
\* call succeeds or fails, changes the token, base URL, timeout, max retries,
\* user agent, transport or retry engine; and two calls given the same
\* arguments and the same server answers have done and returned the same.
C22_RequestsNeverWriteClient ==
    /\ [][client # <<>> => client' = client]_vars
    /\ [](\A r1, r2 \in Callers :
            CallInputs(inflight[r1]) = CallInputs(inflight[r2])
                => CallOutcome(inflight[r1]) = CallOutcome(inflight[r2]))

\* C22's case: on a client built with options, one call has failed and one
\* has succeeded while the client holds what New stored
C22_Witness ==
    /\ client # <<>>
    /\ client[1].retryLogic.maxRetries = MaxRetriesBound
    /\ client[1].accessToken = FinalToken
    /\ inflight[1].pc = "returned" /\ inflight[1].retTag = "err"
    /\ inflight[2].pc = "returned" /\ inflight[2].retTag = "nil"

\* C23: an attempt that obtains no HTTP response yields an error wrapping the
\* transport's cause, of the connection-timeout kind when the cause is an
\* expired deadline and of the connection-error kind otherwise, and the policy
\* holds it retryable; it is the error DoRequest surfaces when it returns one.
C23_TransportFailureKinds ==
    \A i \in 1 .. Len(outcomes) :
        outcomes[i].kind = "transportError" =>
            LET e == AttemptError(i)
            IN  /\ e.type = IF outcomes[i].cause = "context deadline exceeded"
                            THEN "APIConnectionTimeoutError"
                            ELSE "APIConnectionError"
                /\ e.Cause = outcomes[i].cause
                /\ IsRetryableError(e)
                /\ (pc = "returned" /\ retTag = "err" /\ i = calls => retErr = e)

\* The query the client puts on the URL of the iterator's k-th page request:
\* the iterator's client is the BeeperDesktop, whose DoRequestWithQuery encodes
\* the map fetchNextPage hands it.
SentQuery(k) == DoRequestWithQuery("/v0/search-messages", requests[k]).query

\* TRUE iff the k-th answer is a page with has_more = true and a non-empty cursor
MoreWithCursor(k) ==
    /\ pages[k].kind = "page"
    /\ pages[k].pagination # <<>>
    /\ pages[k].pagination[1].HasMore
    /\ pages[k].pagination[1].Cursor # <<>>
    /\ pages[k].pagination[1].Cursor[1] # ""

\* C24: when the last fetched page reported has_more = true with cursor c, the
\* next page request is a single request whose cursor query parameter is c,
\* the cursor of the immediately preceding page, and the page it brings
\* replaces the buffer.
C24_NextPageUsesLastCursor ==
    /\ Len(requests) = fetches
    /\ Len(pages) = fetches
    /\ (lastCall.op = "Next" => lastCall.fetched <= 1)
    /\ \A k \in 2 .. Len(requests) :
         MoreWithCursor(k - 1)
            => ValuesOf(SentQuery(k), "cursor") = pages[k - 1].pagination[1].Cursor
    /\ (pages # <<>> /\ pages[Len(pages)].kind = "page")
            => it.currentPage = pages[Len(pages)].items

\* the three parameters the iterator advances
AdvancingKeys == {"cursor", "limit", "direction"}

\* the text of a caller-supplied scalar, through a pointer if it is one
PlainText(v) ==
    LET x == IF v.kind = "ptr" /\ v.elems # <<>> THEN v.elems[1] ELSE v
    IN  CASE x.kind = "string" -> <<x.str>>
          [] x.kind = "int" -> <<Itoa(x.num)>>
          [] x.kind = "bool" -> <<FormatBool(x.bool)>>
          [] OTHER -> <<>>

\* the value of key on the first page request's URL when the iterator's own
\* value is text ("" for empty, zero or unset): sent when non-empty, else omitted
SentAsCurrent(k, key, text) ==
    IF text # "" THEN ValuesOf(SentQuery(k), key) = <<text>>
    ELSE key \notin DOMAIN SentQuery(k)

\* C25: every page request carries limit and direction, and the first one the
\* cursor, with the iterator's current value when that is non-empty and
\* non-zero, and omits the parameter when it is empty, zero or unset; every
\* other caller-supplied parameter is passed through with the caller's value,
\* and the caller's map is as the caller built it.
C25_AdvancingParamsOverride ==
    /\ it.params \in CallerParams
    /\ \A k \in 1 .. Len(requests) :
         /\ SentAsCurrent(k, "limit", IF it.limit[1] > 0 THEN Itoa(it.limit[1]) ELSE "")
         /\ SentAsCurrent(k, "direction", it.direction[1])
         /\ k = 1 => SentAsCurrent(k, "cursor", NewIterator(it.params).cursor[1])
         /\ \A i \in 1 .. Len(it.params.elems) :
              LET e == it.params.elems[i]
              IN  (e.key \notin AdvancingKeys /\ PlainText(e.val) \notin {<<>>, <<"">>})
                    => ValuesOf(SentQuery(k), e.key) = PlainText(e.val)

\* TRUE of a step in which it.Next is called, by the caller or by ToSlice
NextIsCalled ==
    \/ itPc = "toSlice" /\ HasNext(it)
    \/ /\ itPc = "ready"
       /\ \/ yielded' # yielded
          \/ pages' # pages
          \/ lastCall' # lastCall /\ lastCall'.op = "Next"

\* C26: while the buffer index is below the buffer length, a Next call
\* returns the buffered item at the index, advances the index by exactly one
\* and makes no network call; so the items returned are the items of the
\* pages in page order, each once.
C26_BufferedNextServesInOrder ==
    /\ [][(it.currentIdx < Len(it.currentPage) /\ NextIsCalled)
            => /\ yielded' = Append(yielded, it.currentPage[it.currentIdx + 1])
               /\ it' = [it EXCEPT !.currentIdx = it.currentIdx + 1]
               /\ fetches' = fetches
               /\ requests' = requests
               /\ pages' = pages
               /\ (itPc = "ready"
                     => lastCall' = MkCall("Next", <<it.currentPage[it.currentIdx + 1]>>,
                                           <<>>, NoError, FALSE, <<>>, 0))]_vars
    /\ [](yielded = SubSeq(ConcatItems(pages), 1, Len(yielded)))

\* C26's case: the second item of a page of two has been returned from the
\* buffer, one request made in all
C26_Witness ==
    /\ itPc = "ready"
    /\ fetches = 1
    /\ Len(it.currentPage) = 2
    /\ it.currentIdx = 2
    /\ lastCall = MkCall("Next", <<it.currentPage[2]>>, <<>>, NoError, FALSE, <<>>, 0)
    /\ yielded = it.currentPage

\* the last answer was a page without pagination metadata or with
\* has_more = false, and every item served has been returned
Exhausted ==
    /\ pages # <<>>
    /\ LET p == pages[Len(pages)]
       IN  /\ p.kind = "page"
           /\ p.pagination = <<>> \/ ~p.pagination[1].HasMore
    /\ Len(yielded) = ItemsServed(pages)

\* the ToSlice running or last returned was entered with the iterator as it is
SliceEnteredHere == sliceStart = fetches /\ sliceFrom = Len(yielded)

\* C27: once a fetched page carried no pagination metadata or has_more = false
\* and its items have all been returned, no step makes a network call or
\* returns an item: Next returns no item and no error, HasNext is and stays
\* false, and a ToSlice entered from then on returns an empty result.
C27_ExhaustedIsAbsorbing ==
    /\ [](Exhausted => ~HasNext(it))
    /\ [][Exhausted
            => /\ Exhausted'
               /\ it' = it
               /\ fetches' = fetches
               /\ requests' = requests
               /\ pages' = pages
               /\ yielded' = yielded
               /\ lastCall' # lastCall
                    => \/ lastCall' = MkCall("Next", <<>>, <<>>, NoError, FALSE, <<>>, 0)
                       \/ lastCall' = MkCall("HasNext", <<>>, <<>>, NoError, FALSE, <<>>, 0)
                       \/ /\ lastCall'.op = "ToSlice"
                          /\ lastCall'.err = NoError
                          /\ SliceEnteredHere
                               => lastCall'.items = <<>> /\ lastCall'.fetched = 0]_vars

\* C27's case: after a page without pagination metadata whose items were all
\* returned, a ToSlice entered on the exhausted iterator has returned empty
C27_Witness ==
    /\ Exhausted
    /\ pages[Len(pages)].pagination = <<>>
    /\ Len(yielded) > 0
    /\ itPc = "ready"
    /\ SliceEnteredHere
    /\ lastCall = MkCall("ToSlice", <<>>, <<>>, NoError, FALSE, <<>>, 0)

\* the k-th answer is a page of zero items with has_more = true
EmptyWithMore(ps, k) ==
    /\ ps[k].kind = "page"
    /\ ps[k].items = <<>>
    /\ ps[k].pagination # <<>>
    /\ ps[k].pagination[1].HasMore

\* C29: the Next call that fetches a page of zero items with has_more = true
\* returns the no-item sentinel without error and leaves HasNext true with the
\* page's cursor as the iterator's; the Next call after it fetches again, and
\* the map it hands the client carries that page's cursor when the page has
\* one.
C29_EmptyPageIsNotTheEnd ==
    /\ [][(Len(pages') = Len(pages) + 1 /\ EmptyWithMore(pages', Len(pages')))
            => /\ HasNext(it')
               /\ it'.cursor = pages'[Len(pages')].pagination[1].Cursor
               /\ yielded' = yielded
               /\ fetches' = fetches + 1
               /\ (itPc = "ready"
                     => lastCall' = MkCall("Next", <<>>, <<>>, NoError, FALSE, <<>>, 1))]_vars
    /\ [][(pages # <<>> /\ EmptyWithMore(pages, Len(pages)) /\ NextIsCalled)
            => /\ fetches' = fetches + 1
               /\ Len(pages') = Len(pages) + 1
               /\ MoreWithCursor(Len(pages))
                    => MapGet(requests'[Len(requests')], "cursor")
                         = <<GoString(pages[Len(pages)].pagination[1].Cursor[1])>>]_vars

\* C29's case: a page with items, then a page of zero items with
\* has_more = true and a cursor, then the Next call after it has fetched a
\* third page and returned its first item
C29_Witness ==
    /\ Len(pages) = 3
    /\ pages[1].items # <<>>
    /\ EmptyWithMore(pages, 2) /\ MoreWithCursor(2)
    /\ pages[3].kind = "page" /\ pages[3].items # <<>>
    /\ itPc = "ready"
    /\ sliceStart = -1
    /\ lastCall = MkCall("Next", <<pages[3].items[1]>>, <<>>, NoError, FALSE, <<>>, 1)

\* a ToSlice has returned without error and nothing was called since
ToSliceReturnedOK ==
    /\ itPc = "ready"
    /\ lastCall.op = "ToSlice"
    /\ lastCall.err = NoError

\* the items the Next calls before the last ToSlice returned, then its items
NextThenToSlice == SubSeq(yielded, 1, sliceFrom) \o lastCall.items

\* the requests were issued one after another, each answered before the next
FetchesInSequence == Len(requests) = fetches /\ Len(pages) = fetches

C32_EnvelopeOrRawBody ==
    (errIn # <<>> /\ errOut # NoError) =>
        LET decoded == UnmarshalErrorResp(errIn[2])
        IN  IF decoded.ok
            THEN /\ decoded.Error # "" => errOut.Message = decoded.Error
                 /\ errOut.Code = decoded.Code
                 /\ errOut.Details = decoded.Details
            ELSE /\ errOut.Message = errIn[2]
                 /\ errOut.Code = ""
                 /\ errOut.Details = NoDetails

\* the last request the iterator made failed
LastFetchFailed == pages # <<>> /\ pages[Len(pages)].kind = "error"

\* C34: a page request that fails inside Next leaves the cursor, limit,
\* direction, more-pages flag, buffer and index as they were, Next returns the
\* error and no item, and the Next call after it issues the same request
\* again.
C34_FailedFetchChangesNothing ==
    /\ [][(Len(pages') = Len(pages) + 1 /\ pages'[Len(pages')].kind = "error")
            => /\ it' = it
               /\ yielded' = yielded
               /\ fetches' = fetches + 1
               /\ NeedsFetch(it')
               /\ (itPc = "ready"
                     => /\ lastCall'.op = "Next"
                        /\ lastCall'.item = <<>>
                        /\ lastCall'.err # NoError
                        /\ lastCall'.err.Cause = pages'[Len(pages')].err.type)]_vars
    /\ [][(LastFetchFailed /\ NextIsCalled)
            => /\ fetches' = fetches + 1
               /\ Len(requests') = Len(requests) + 1
               /\ requests'[Len(requests')] = requests[Len(requests)]]_vars

\* C34's case: the request for the second page failed, Next returned the
\* error, and the Next call after it asked for that page again and returned
\* its first item
C34_Witness ==
    /\ Len(pages) = 3
    /\ MoreWithCursor(1)
    /\ pages[2].kind = "error"
    /\ pages[3].kind = "page" /\ pages[3].items # <<>>
    /\ requests[3] = requests[2]
    /\ requests[2] # requests[1]
    /\ itPc = "ready"
    /\ sliceStart = -1
    /\ lastCall = MkCall("Next", <<pages[3].items[1]>>, <<>>, NoError, FALSE, <<>>, 1)

\* the last answer is a page without pagination metadata or with has_more = false
LastPageIsFinal ==
    /\ pages # <<>>
    /\ pages[Len(pages)].kind = "page"
    /\ \/ pages[Len(pages)].pagination = <<>>
       \/ ~pages[Len(pages)].pagination[1].HasMore

\* the items served that had not been returned when the last ToSlice was entered
RestAtEntry == SubSeq(ConcatItems(pages), sliceFrom + 1, Len(ConcatItems(pages)))

C36_AtLeastOneAttempt ==
    (pc = "returned" /\ ctx = "active")
        => /\ calls >= 1
           /\ retTag \in {"err", "exhausted"} => retErr # NoError
           /\ ~(retTag = "exhausted" /\ retCount = 0)

\* C39: in every reachable iterator state 0 <= index <= length of the buffer,
\* and a successful page fetch sets the index to 0 before an item of the new
\* page is returned: the Next call that fetched returns the page's first item
\* and leaves the index at 1, or returns no item and leaves it at 0.
C39_IndexWithinBuffer ==
    /\ [](0 <= it.currentIdx /\ it.currentIdx <= Len(it.currentPage))
    /\ [][(Len(pages') = Len(pages) + 1 /\ pages'[Len(pages')].kind = "page")
            => LET page == pages'[Len(pages')]
               IN  /\ fetchNextPage(it, page).iter.currentIdx = 0
                   /\ it'.currentPage = page.items
                   /\ IF page.items = <<>>
                      THEN it'.currentIdx = 0 /\ yielded' = yielded
                      ELSE /\ it'.currentIdx = 1
                           /\ yielded' = Append(yielded, page.items[1])]_vars

\* C39's case: a page of two items was consumed (index 2), then a page of one
\* item was fetched and its item returned (index 1)
C39_Witness ==
    /\ Len(pages) = 2
    /\ pages[1].kind = "page" /\ Len(pages[1].items) = 2
    /\ pages[2].kind = "page" /\ Len(pages[2].items) = 1
    /\ it.currentPage = pages[2].items
    /\ it.currentIdx = 1
    /\ Len(yielded) = 3

\* the k-th answer ends a ToSlice that fetched it at once: a failure or a page
\* of zero items
StopsAtOnce(ps, k) == ps[k].kind = "error" \/ ps[k].items = <<>>

\* the cursor the server attached to the answer before the k-th request
CursorBefore(k) == pages[k - 1].pagination[1].Cursor

Writing(x) == web.h[x].pc \in {"write", "writing", "unlock"}

\* the handler x is inside get, between RLock and RUnlock
Reading(x) == web.h[x].pc \in {"read", "runlock"}

RECURSIVE SequentialMap(_)
\* the session map after the first k store operations of the run, applied one
\* after the other to an empty map
SequentialMap(k) ==
    IF k = 0 THEN <<>>
    ELSE LET o == web.ops[k]
             before == SequentialMap(k - 1)
         IN  CASE o.op = "set" -> mapSet(before, o.id, TRUE)
               [] o.op = "delete" -> mapDelete(before, o.id)
               [] OTHER -> before

\* C33: the session map is touched only under the read-write lock: no get is
\* inside its critical section while a set or delete is inside its own, at
\* most one set or delete is inside at a time, a handler holds the lock
\* exactly while it is inside a store operation (so every operation releases
\* what it took), and the store operations in the order they touched the map
\* form a sequential run of set/get/delete: every get found its id exactly
\* when that run's map holds it, and the map is that run's map.
C33_RegistryUnderLock ==
    /\ \A x, y \in Handlers : ~(Reading(x) /\ Writing(y))
    /\ \A x, y \in Handlers : (Writing(x) /\ Writing(y)) => x = y
    /\ web.torn => \E x \in Handlers : web.h[x].pc = "writing"
    /\ \A x \in Handlers : (web.writer = x) <=> Writing(x)
    /\ \A x \in Handlers : (x \in web.readers) <=> Reading(x)
    /\ \A k \in 1 .. Len(web.ops) :
          web.ops[k].op = "get"
              => (web.ops[k].found <=> web.ops[k].id \in DOMAIN SequentialMap(k - 1))
    /\ DOMAIN SequentialMap(Len(web.ops)) = DOMAIN web.sessions

\* two lookups are inside get at the same time, after an insert and a delete
C33_Witness ==
    /\ \E x, y \in Handlers : x # y /\ web.h[x].pc = "read" /\ web.h[y].pc = "read"
    /\ \E k \in 1 .. Len(web.ops) : web.ops[k].op = "set"
    /\ \E k \in 1 .. Len(web.ops) : web.ops[k].op = "delete"

\* the login that handler x has answered, or is serving, was given an empty
\* token or a token that Token.Info did not accept
FailedLogin(x) ==
    /\ web.h[x].kind = "login"
    /\ web.h[x].token = "" \/ ~web.h[x].info

\* C38: every id in the registry was generated by a login whose client was
\* built from a non-empty token and whose Token.Info call succeeded; a login
\* that fails touches neither the registry nor the cookie and answers 400 or
\* 401; once a logout for an id has answered, the id is not in the registry,
\* and an authenticated endpoint entered after that with this id answers 401.
C38_RegisteredMeansValidated ==
    /\ [](\A id \in DOMAIN web.sessions :
             /\ id \in 1 .. web.generated
             /\ web.sessions[id].Client # ""
             /\ web.sessions[id].UserInfo)
    /\ [][\A x \in Handlers :
             (web.h'[x] # web.h[x] /\ FailedLogin(x)')
                 => /\ web.sessions' = web.sessions
                    /\ web.ops' = web.ops
                    /\ web.h'[x].pc = "done"
                    /\ web.h'[x].status \in {400, 401}
                    /\ web.h'[x].cookie = <<>>]_vars
    /\ [](\A id \in web.loggedOut : id \notin DOMAIN web.sessions)
    /\ [](\A x \in Handlers :
             (web.h[x].kind = "auth" /\ web.h[x].late /\ web.h[x].pc = "done")
                 => web.h[x].status = 401)

\* an endpoint has answered 401 for an id that was issued and then logged out,
\* next to a login that failed its validation
C38_Witness ==
    \E x, y \in Handlers :
        /\ web.h[x].kind = "auth" /\ web.h[x].pc = "done" /\ web.h[x].late
        /\ web.h[x].id \in web.issued /\ web.h[x].status = 401
        /\ FailedLogin(y) /\ web.h[y].token # "" /\ web.h[y].pc = "done"


=============================================================================
